---- MODULE Spec2Model ----
(***************************************************************************)
(* Model of the deslop run orchestrator (the App component), its results   *)
(* and review views, the markdown artifact readers and the verification    *)
(* command discovery.                                                      *)
(*                                                                         *)
(* React state (useState) is modelled by one variable per state cell.      *)
(* Every synchronous block of the source (an input handler, or the part of *)
(* an async function between two awaits) is one action.  The position of   *)
(* each async function that is suspended at an await is kept in a *Pc      *)
(* variable.                                                               *)
(***************************************************************************)
EXTENDS Integers, Sequences, FiniteSets, TLC

VARIABLES
    phase,              \* useState<AppPhase>
    slopItems,          \* useState<SlopItem[]>
    tasks,              \* useState<Task[]>
    error,              \* useState<ParsedError | null>: "null" or the failing call
    reviewSuggestions,  \* useState<ReviewSuggestion[]>
    isReviewing,        \* useState(false)
    verificationState,  \* useState<VerificationState | null>: <<>> is null, <<s>> is s
    cursor,             \* SlopList's useState(0), 0-based as in the source
    configFiles,        \* the project's deslop.toml and the global one: [project, global]
    config,             \* the config prop, <<>> before cli has loaded it
    project,            \* the manifests found in `directory`
    findingsFile,       \* findings.md as the scanning agent leaves it, until runScan reads it
    scanResult,         \* what runScan read: [exists, found], found = -1 before the read
    scanPc,             \* cli, then runScan: "cli" | "getApiKey" | "prompt" | "storeApiKey" | "saving" | "streaming" | "done" | "failed"
    fileGroups,         \* executeTasks: the groups of groupTasksByFile, in Map order
    groupPc,            \* per group: "streaming" | "between" | "done"
    groupIdx,           \* per group: position (1-based) of its current task
    execPc,             \* executeTasks: "idle" | "awaiting" (at await Promise.all)
    verPc,              \* runVerification/executeVerification: "idle" | "command" | "fix"
    verIdx,             \* executeVerification: loop variable i (0-based)
    verAttempt,         \* executeVerification: parameter attempt
    reviewPc,           \* runReview: "idle" | "streaming"
    exited,             \* useApp().exit() was called
    loopedBack,         \* history: handleApplySuggestions has been called
    agentOutput,        \* useState<string[]>: the lines the orchestrator itself appends
    reviewKey,          \* history: the last key ReviewResults took after loading
    outputBufferRef,    \* useRef<string>(''): the text deltas buffered, oldest first
    result,             \* executeVerification: const result, <<>> before the first one
    agents,             \* the CursorAgent objects in use, by identity: [model, prompts]
    groupAgent,         \* executeTasks: per group, the identity of its const agent
    notSlopFile,        \* .deslop/learnings/not-slop.md: [exists, content]
    stored,             \* history: the entries that addNotSlopEntry was called for
    reviewFile,         \* review.md when the review stream ends, AnyReview: whatever the agent writes
    prStatus,           \* Complete: useState<PRStatus>('checking')
    prPc,               \* createPR: the command it awaits, "idle" outside of it
    currentBranch,      \* createPR: const currentBranch, "" before it is read
    repoBranch,         \* the git repository: the branch that is checked out
    commandsRun,        \* history: the commands createPR has run, with their results
    checkPc,            \* checkGitStatus: the command it awaits, "done" after it
    diffResult,         \* checkGitStatus: const diffResult.success as << b >>, <<>> before
    cycle,              \* history: [passes, fixes] of the current automatic verification cycle
    visited             \* history: the phases the run has been in

vars == <<phase, slopItems, tasks, error, reviewSuggestions, isReviewing,
          verificationState, cursor, configFiles, config, project, findingsFile, scanResult,
          scanPc, fileGroups, groupPc, groupIdx, execPc, verPc,
          verIdx, verAttempt, reviewPc, exited, loopedBack, agentOutput, reviewKey,
          outputBufferRef, result, agents, groupAgent, notSlopFile, stored,
          reviewFile, prStatus, prPc, currentBranch, repoBranch, commandsRun,
          checkPc, diffResult, cycle, visited>>

-----------------------------------------------------------------------------
(* Bounds of the model *)

\* number of issue blocks the scanning agent writes at most
MaxFindings == 2
\* number of suggestion blocks the reviewing agent writes at most
MaxSuggestions == 1
\* number of text deltas without newline that fit into the 120 characters of a line
MaxBuffered == 2
\* number of streamed lines in the agent output and text deltas in the buffer
\* up to which the agents stream text
MaxOutput == 1

-----------------------------------------------------------------------------
(* types.ts *)

Phases == {"scanning", "results", "executing", "verifying", "reviewing", "complete"}

HINT_ONLY_CATEGORIES == {"ui-slop"}

\* the files, titles and categories the agents write in this model
Files == {"a.ts", "b.ts"}
WrittenCategories == {"extra-comments", "ui-slop"}
WrittenSeverities == {"HIGH"}

toLowerCase(s) ==
    CASE s = "HIGH" -> "high"
      [] s = "MEDIUM" -> "medium"
      [] s = "LOW" -> "low"
      [] s = "UI-Slop" -> "ui-slop"
      [] OTHER -> s

\* The sequences over S of length at most n
SeqUpTo(S, n) == UNION { [1..k -> S] : k \in 0..n }

\* variant of generateTasksForSlopItem: the task id is derived from the title
generateTasksForSlopItem_titleId(item) ==
    << [ id          |-> "task-" \o item.title,
         title       |-> "Fix: " \o item.title,
         description |-> item.description,
         status      |-> "pending",
         file        |-> item.file,
         slopItemId  |-> item.id ] >>

generateTasksForSlopItem(item) ==
    << [ id          |-> "task-" \o item.id,
         title       |-> "Fix: " \o item.title,
         description |-> item.description,
         status      |-> "pending",
         file        |-> item.file,
         slopItemId  |-> item.id ] >>

-----------------------------------------------------------------------------
(* run-manager.ts: the readers of the agent-written artifacts.             *)
(* findings.md and review.md are the sequences of the parts between their  *)
(* newlines (content.split('\n')): a text that ends with a newline has an  *)
(* empty last part.  The value of a bullet is the sequence of its          *)
(* space-separated chunks, so that a "## " or a no-suggestions marker      *)
(* inside a value is a chunk of its own.  A line number that is undefined  *)
(* is 0.                                                                   *)

\* the issue blocks of this model: fixable issues in either file, a ui-slop
\* issue in the first
IssueBlocks ==
    { b \in [ severity : WrittenSeverities, title : {"Dead comment"}, file : Files,
              line : {42}, category : WrittenCategories,
              description : {"restates code"} ] :
        b.category = "ui-slop" => b.file = "a.ts" }

SuggestionBlocks ==
    [ severity : WrittenSeverities, title : {"Follow-up"}, file : {"a.ts"},
      line : {7}, description : {"incomplete fix"} ]

orElse(v, default) == IF v = "" THEN default ELSE v

\* the lines of findings.md
h1Line == [ kind |-> "h1" ]                              \* "# Deslop Scan Results"
h2Line(text) == [ kind |-> "h2", text |-> text ]         \* "## text"
issueLine(severity, title) ==                            \* "### n. [SEVERITY] title"
    [ kind |-> "issue", severity |-> severity, title |-> title ]
bulletLine(field, value) ==                              \* "- **Field:** value"
    [ kind |-> "bullet", field |-> field, value |-> value ]
blankLine == [ kind |-> "blank" ]                        \* ""

\* the chunk "##": followed by a space it is what the lookahead "## " matches
Marker == "##"

\* an issue block as the prompt's format has it
writeIssue(b) ==
    << issueLine(b.severity, b.title),
       bulletLine("File", << b.file >>),
       bulletLine("Line", << ToString(b.line) >>),
       bulletLine("Category", << b.category >>),
       bulletLine("Description", << b.description >>) >>

RECURSIVE concat(_)
concat(seqs) == IF seqs = <<>> THEN <<>> ELSE Head(seqs) \o concat(Tail(seqs))

\* findings.md as the prompt's format has it, for the given issue blocks
writeFindings(blocks) ==
    IF blocks = <<>>
    THEN << h1Line, h2Line("No Issues Found") >>
    ELSE << h1Line, h2Line("Issues Found") >> \o concat(blocks)

\* the text of a value
RECURSIVE join(_)
join(chunks) ==
    IF chunks = <<>> THEN ""
    ELSE IF Len(chunks) = 1 THEN chunks[1]
    ELSE chunks[1] \o " " \o join(Tail(chunks))

hasMarker(value) == \E i \in 1..Len(value) : value[i] = Marker

\* the part of a value before its first "## "
beforeMarker(value) ==
    LET first == CHOOSE i \in 1..Len(value) :
                     value[i] = Marker /\ \A j \in 1..(i - 1) : value[j] # Marker
    IN  SubSeq(value, 1, first - 1)

\* variant of bodyFrom: the body runs to the end of the document
RECURSIVE bodyFrom_toEnd(_, _)
bodyFrom_toEnd(content, i) ==
    IF i > Len(content) THEN <<>>
    ELSE << content[i] >> \o bodyFrom_toEnd(content, i + 1)

\* issueRegex, third group: the lazy body that starts at line i ends before
\* the first "### n." , the first "## " or the end of the document
RECURSIVE bodyFrom(_, _)
bodyFrom(content, i) ==
    IF i > Len(content) THEN <<>>
    ELSE LET l == content[i] IN
         IF l.kind \in {"issue", "h2"} THEN <<>>
         ELSE IF l.kind = "bullet" /\ hasMarker(l.value)
         THEN << [l EXCEPT !.value = beforeMarker(@)] >>
         ELSE << l >> \o bodyFrom(content, i + 1)

\* extractField: the trimmed rest of the line after the first "**field:**"
\* that has one; "" is null.  Every bullet is written with a value.
extractField(body, field) ==
    LET hits == SelectSeq(body, LAMBDA l : l.kind = "bullet" /\ l.field = field
                                           /\ l.value # <<>>)
    IN  IF hits = <<>> THEN "" ELSE join(hits[1].value)

\* the line numbers an agent writes
LineNumbers == 0..99

\* parseInt(s, 10); NaN is 0, both being falsy for the `|| undefined` that follows
parseInt(s) ==
    IF \E n \in LineNumbers : ToString(n) = s
    THEN CHOOSE n \in LineNumbers : ToString(n) = s
    ELSE 0

\* the positions of the "### n. [SEVERITY] title" lines that the regex
\* matches: those that a newline follows
issueLines(content) ==
    SelectSeq([ i \in 1..Len(content) |-> i ],
              LAMBDA i : content[i].kind = "issue" /\ i < Len(content))

\* the document with a newline at its end
withFinalNewline(doc) == [doc EXCEPT !.content = @ \o << blankLine >>]

parseFindingsMarkdown(content) ==
    LET heads == issueLines(content) IN
    [ k \in 1..Len(heads) |->
        LET body == bodyFrom(content, heads[k] + 1) IN
        [ id          |-> "slop-" \o ToString(k - 1),
          title       |-> content[heads[k]].title,
          description |-> orElse(extractField(body, "Description"), ""),
          file        |-> orElse(extractField(body, "File"), "unknown"),
          line        |-> parseInt(orElse(extractField(body, "Line"), "0")),
          severity    |-> toLowerCase(content[heads[k]].severity),
          category    |-> orElse(extractField(body, "Category"), "style-inconsistency"),
          selected    |-> FALSE ] ]

readFindings(artifact) ==
    IF ~artifact.exists THEN <<>> ELSE parseFindingsMarkdown(artifact.content)

\* a line of prose
paraLine(value) == [ kind |-> "para", value |-> value ]

\* the markers of parseReviewMarkdown; a marker inside a text is a chunk of its own
NoSuggestionsMarkers == {"No suggestions", "NO_SUGGESTIONS", "looks good"}

\* the chunks of a line's text
chunksOf(l) ==
    CASE l.kind = "issue" -> << l.title >>
      [] l.kind = "h2" -> << l.text >>
      [] l.kind \in {"bullet", "para"} -> l.value
      [] OTHER -> <<>>

\* content.includes(marker)
includes(content, marker) ==
    \E i \in 1..Len(content) : \E j \in 1..Len(chunksOf(content[i])) :
        chunksOf(content[i])[j] = marker

\* a suggestion block as the prompt's format has it
writeSuggestion(b) ==
    << issueLine(b.severity, b.title),
       bulletLine("File", << b.file >>),
       bulletLine("Line", << ToString(b.line) >>),
       bulletLine("Description", << b.description >>) >>

\* the document the prompt asks for when nothing is to be improved
noSuggestionsReview ==
    << h1Line, h2Line("No Suggestions"),
       paraLine(<< "The code changes look good.", "No further improvements needed." >>) >>

\* review.md as the prompt's format has it, for the given suggestion blocks
writeReview(blocks) ==
    IF blocks = <<>> THEN noSuggestionsReview
    ELSE << h1Line, h2Line("Suggestions") >> \o concat(blocks)

parseReviewMarkdown(content) ==
    IF \E marker \in NoSuggestionsMarkers : includes(content, marker) THEN <<>>
    ELSE LET heads == issueLines(content) IN
         [ k \in 1..Len(heads) |->
             LET body == bodyFrom(content, heads[k] + 1) IN
             [ id          |-> "review-" \o ToString(k - 1),
               title       |-> content[heads[k]].title,
               file        |-> orElse(extractField(body, "File"), "unknown"),
               line        |-> parseInt(orElse(extractField(body, "Line"), "0")),
               severity    |-> toLowerCase(content[heads[k]].severity),
               description |-> orElse(extractField(body, "Description"), "") ] ]

readReview(doc) ==
    IF ~doc.exists THEN <<>> ELSE parseReviewMarkdown(doc.content)

\* findings.md after the scan: absent, or written for up to MaxFindings blocks
findingsOf(blocks) ==
    { [exists |-> FALSE, content |-> <<>>] } \cup
    { [exists |-> TRUE, content |-> writeFindings(b)] : b \in SeqUpTo(blocks, MaxFindings) }

FindingsArtifacts == findingsOf({ writeIssue(b) : b \in IssueBlocks })

\* review.md after the review: absent, or written for up to MaxSuggestions blocks,
\* with or without a closing remark that the rest looks good
reviewsOf(blocks) ==
    { [exists |-> FALSE, content |-> <<>>] } \cup
    { [exists |-> TRUE,
       content |-> writeReview(b) \o
                   (IF remark THEN << paraLine(<< "The rest", "looks good" >>) >> ELSE <<>>)] :
        remark \in BOOLEAN, b \in SeqUpTo(blocks, MaxSuggestions) }

ReviewArtifacts == reviewsOf({ writeSuggestion(b) : b \in SuggestionBlocks })

\* the value of reviewFile where the reviewing agent is free in what it writes
AnyReview == <<>>

-----------------------------------------------------------------------------
(* learnings.ts: the not-slop store.  not-slop.md is the sequence of its   *)
(* lines; a code snippet is the sequence of the lines it quotes, each with *)
(* its indentation.                                                        *)

\* number of entries that are added to the store when it is studied by itself
MaxEntries == 2
\* number of entries up to which findings are marked as not slop: every round
\* of suggestions applied brings findings to mark, without an end
MaxStored == 4

\* the lines of not-slop.md
textLine == [ kind |-> "text" ]
entryLine(n) == [ kind |-> "entry", n |-> n ]            \* "## Entry n"
fenceLine == [ kind |-> "fence" ]                        \* "```"
codeLine(indent, code) == [ kind |-> "code", indent |-> indent, code |-> code ]

\* the heading that addNotSlopEntry writes into a new file
learningsHeader == << h1Line, blankLine, textLine, textLine, blankLine >>

\* new Date().toISOString().slice(0, 10)
Today == "2026-10-29"

\* addNotSlopEntry: const entry
NotSlopEntry(item, codeSnippet) ==
    [ file |-> item.file, line |-> item.line, category |-> item.category,
      title |-> item.title, codeSnippet |-> codeSnippet, timestamp |-> Today ]

\* (content.match(/## Entry \d+/g) || []).length
entryCount(content) == Cardinality({ i \in 1..Len(content) : content[i].kind = "entry" })

\* addNotSlopEntry(baseDir, item, codeSnippet): not-slop.md after the call
addNotSlopEntry(file, item, codeSnippet) ==
    LET entry   == NotSlopEntry(item, codeSnippet)
        content == IF file.exists THEN file.content ELSE learningsHeader
        entryNumber == entryCount(content) + 1
    IN  [ exists  |-> TRUE,
          content |-> content \o
              << entryLine(entryNumber),
                 bulletLine("File", << entry.file >>),
                 IF entry.line # 0 THEN bulletLine("Line", << ToString(entry.line) >>)
                                   ELSE blankLine,
                 bulletLine("Category", << entry.category >>),
                 bulletLine("Original title", << entry.title >>),
                 bulletLine("Code snippet", <<>>),
                 fenceLine >> \o entry.codeSnippet \o
              << fenceLine,
                 bulletLine("Marked as not slop on", << entry.timestamp >>),
                 blankLine >> ]

\* entryRegex, first group: the lazy body that starts at line i ends before
\* the first "## Entry n" or at the end of the document
RECURSIVE entryBodyFrom(_, _)
entryBodyFrom(content, i) ==
    IF i > Len(content) THEN <<>>
    ELSE IF content[i].kind = "entry" THEN <<>>
    ELSE << content[i] >> \o entryBodyFrom(content, i + 1)

\* String.prototype.trim of a snippet: the indentation of its first line and
\* the blank lines at its ends go
RECURSIVE trim(_)
trim(snippet) ==
    IF snippet = <<>> THEN <<>>
    ELSE IF Head(snippet).kind = "blank" THEN trim(Tail(snippet))
    ELSE IF snippet[Len(snippet)].kind = "blank"
    THEN trim(SubSeq(snippet, 1, Len(snippet) - 1))
    ELSE IF Head(snippet).kind = "code"
    THEN << [Head(snippet) EXCEPT !.indent = 0] >> \o Tail(snippet)
    ELSE snippet

\* body.match(/```[\s\S]*?\n([\s\S]*?)```/): the lines between the first
\* fence of the body and the fence after it, trimmed; <<>> is ''
codeSnippetOf(body) ==
    LET fences == SelectSeq([ i \in 1..Len(body) |-> i ], LAMBDA i : body[i].kind = "fence")
    IN  IF Len(fences) < 2 THEN <<>>
        ELSE trim(SubSeq(body, fences[1] + 1, fences[2] - 1))

\* the positions of the "## Entry n" lines
entryLines(content) ==
    SelectSeq([ i \in 1..Len(content) |-> i ], LAMBDA i : content[i].kind = "entry")

parseNotSlopMarkdown(content) ==
    LET heads == entryLines(content) IN
    [ k \in 1..Len(heads) |->
        LET body == entryBodyFrom(content, heads[k] + 1) IN
        [ file        |-> orElse(extractField(body, "File"), "unknown"),
          line        |-> parseInt(orElse(extractField(body, "Line"), "0")),
          category    |-> orElse(extractField(body, "Category"), "unknown"),
          title       |-> orElse(extractField(body, "Original title"), "unknown"),
          codeSnippet |-> codeSnippetOf(body),
          timestamp   |-> orElse(extractField(body, "Marked as not slop on"), "") ] ]

loadNotSlopEntries(file) ==
    IF ~file.exists THEN <<>> ELSE parseNotSlopMarkdown(file.content)

\* the source files of the project: a TypeScript file is the body of functions
\* whose statements are indented
SourceLines ==
    [ n \in 1..50 |-> codeLine(IF n % 10 = 1 THEN 0 ELSE 2, "line " \o ToString(n)) ]

\* a markdown file of the project: it quotes a command in a fenced block and
\* has a heading "## Entry 7"
MarkdownLines ==
    << codeLine(0, "# Log"), blankLine, entryLine(7), codeLine(0, "ran the build"),
       fenceLine, codeLine(0, "npm run build"), fenceLine >>

\* the directory: the paths at which a file is found, and those of them that
\* cannot be read
DirectoryFiles == Files \cup {"LOG.md", "locked.ts"}
UnreadableFiles == {"locked.ts"}

\* existsSync(fullPath)
existsSync(filePath) == filePath \in DirectoryFiles

\* readFileSync(fullPath, 'utf-8').split('\n')
sourceLinesOf(file) == IF file = "LOG.md" THEN MarkdownLines ELSE SourceLines

\* lines.slice(start, end), 0-based and end-exclusive as in the source
sliceLines(lines, start, end) ==
    IF start >= end \/ start >= Len(lines) THEN <<>>
    ELSE SubSeq(lines, start + 1, IF end > Len(lines) THEN Len(lines) ELSE end)

\* getCodeSnippet(baseDir, filePath, line, contextLines)
getCodeSnippet(filePath, line, contextLines) ==
    IF ~existsSync(filePath) THEN << codeLine(0, "(File not found)") >>
    ELSE IF filePath \in UnreadableFiles THEN << codeLine(0, "(Error reading file)") >>
    ELSE LET lines == sourceLinesOf(filePath) IN
         IF line < 1 THEN sliceLines(lines, 0, contextLines * 2 + 1)
         ELSE LET startLine == IF line - 1 - contextLines < 0 THEN 0
                               ELSE line - 1 - contextLines
                  endLine   == IF line + contextLines > Len(lines) THEN Len(lines)
                               ELSE line + contextLines
              IN  sliceLines(lines, startLine, endLine)

NoNotSlopFile == [ exists |-> FALSE, content |-> <<>> ]

-----------------------------------------------------------------------------
(* verification/discover.ts.  A project directory is described by what the *)
(* discoverer reads of it: for each manifest whether it exists, whether it *)
(* can be read and parsed, and the script names, tool names or make        *)
(* targets it holds.                                                       *)

\* variant of createCommand: every command is required
createCommand_allRequired(id, command, type, optional) ==
    [ id |-> id, command |-> command, type |-> type, optional |-> FALSE,
      status |-> "pending" ]

createCommand(id, command, type, optional) ==
    [ id |-> id, command |-> command, type |-> type, optional |-> optional,
      status |-> "pending" ]

when(cond, cmds) == IF cond THEN cmds ELSE <<>>

packageJsonCommands(pkg) ==
    IF ~pkg.exists \/ ~pkg.valid THEN <<>>
    ELSE when("build" \in pkg.names,
              << createCommand("build", "npm run build", "build", FALSE) >>)
         \o (IF "typecheck" \in pkg.names
             THEN << createCommand("typecheck", "npm run typecheck", "typecheck", TRUE) >>
             ELSE when("type-check" \in pkg.names,
                       << createCommand("typecheck", "npm run type-check", "typecheck", TRUE) >>))
         \o when("test" \in pkg.names,
                 << createCommand("test", "npm run test", "test", FALSE) >>)
         \o when("lint" \in pkg.names,
                 << createCommand("lint", "npm run lint", "lint", TRUE) >>)

cargoCommands ==
    << createCommand("cargo-build", "cargo build", "build", FALSE),
       createCommand("cargo-test", "cargo test", "test", FALSE),
       createCommand("cargo-clippy", "cargo clippy -- -D warnings", "lint", TRUE) >>

pyprojectCommands(py) ==
    IF ~py.valid THEN <<>>
    ELSE when("pytest" \in py.names, << createCommand("pytest", "pytest", "test", FALSE) >>)
         \o when("mypy" \in py.names, << createCommand("mypy", "mypy .", "typecheck", TRUE) >>)
         \o when("ruff" \in py.names, << createCommand("ruff", "ruff check .", "lint", TRUE) >>)

goCommands ==
    << createCommand("go-build", "go build ./...", "build", FALSE),
       createCommand("go-test", "go test ./...", "test", FALSE),
       createCommand("go-vet", "go vet ./...", "lint", TRUE) >>

makefileCommands(mk) ==
    IF ~mk.valid THEN <<>>
    ELSE when("build" \in mk.names,
              << createCommand("make-build", "make build", "build", FALSE) >>)
         \o when("test" \in mk.names,
                 << createCommand("make-test", "make test", "test", FALSE) >>)
         \o when("lint" \in mk.names,
                 << createCommand("make-lint", "make lint", "lint", TRUE) >>)
         \o when("typecheck" \in mk.names \/ "type-check" \in mk.names,
                 << createCommand("make-typecheck",
                                  IF "typecheck" \in mk.names THEN "make typecheck"
                                  ELSE "make type-check",
                                  "typecheck", TRUE) >>)

\* variant of discoverVerificationCommands: every manifest found contributes
discoverVerificationCommands_merge(dir) ==
    packageJsonCommands(dir.packageJson)
    \o (IF dir.cargoToml THEN cargoCommands ELSE <<>>)
    \o (IF dir.pyproject.exists THEN pyprojectCommands(dir.pyproject) ELSE <<>>)
    \o (IF dir.goMod THEN goCommands ELSE <<>>)
    \o (IF dir.makefile.exists THEN makefileCommands(dir.makefile) ELSE <<>>)

\* the `commands` array of discoverVerificationCommands
discoverVerificationCommands(dir) ==
    LET c1 == packageJsonCommands(dir.packageJson)
        c2 == IF dir.cargoToml /\ Len(c1) = 0 THEN cargoCommands ELSE c1
        c3 == IF dir.pyproject.exists /\ Len(c2) = 0
              THEN pyprojectCommands(dir.pyproject) ELSE c2
        c4 == IF dir.goMod /\ Len(c3) = 0 THEN goCommands ELSE c3
        c5 == IF dir.makefile.exists /\ Len(c4) = 0
              THEN makefileCommands(dir.makefile) ELSE c4
    IN  c5

NoManifest == [exists |-> FALSE, valid |-> FALSE, names |-> {}]
Manifest(names) == [exists |-> TRUE, valid |-> TRUE, names |-> names]

EmptyProject ==
    [ packageJson |-> NoManifest, cargoToml |-> FALSE, pyproject |-> NoManifest,
      goMod |-> FALSE, makefile |-> NoManifest ]

\* the project directories the orchestrator is run on in this model
Projects ==
    { EmptyProject,
      [EmptyProject EXCEPT !.packageJson = Manifest({"build", "typecheck", "test"})],
      [EmptyProject EXCEPT !.pyproject = Manifest({"mypy", "pytest"})] }

-----------------------------------------------------------------------------
(* App (app.tsx): initial state *)

NoError == "null"
NoVerificationState == <<>>

\* DEFAULT_CONFIG.verification.maxRetries
DefaultMaxRetries == 3

DefaultTimeout == 300

DEFAULT_CONFIG ==
    [ models       |-> [ planning     |-> "claude-4.5-opus-high",
                         executing    |-> "claude-4.5-opus-high",
                         verification |-> "claude-4.5-opus-high" ],
      verification |-> [ maxRetries |-> DefaultMaxRetries,
                         timeout    |-> DefaultTimeout ] ]

Options == {"planning", "executing", "verification", "maxRetries", "timeout"}

\* A deslop.toml: whether it exists, whether it parses, and for each option
\* the value it sets, << v >>, or <<>> when it does not set the option
NoConfigFile == [ exists |-> FALSE, valid |-> FALSE, options |-> [ o \in Options |-> <<>> ] ]
BrokenConfigFile == [ exists |-> TRUE, valid |-> FALSE, options |-> [ o \in Options |-> <<>> ] ]
ConfigFile(options) == [ exists |-> TRUE, valid |-> TRUE, options |-> options ]

\* parsed.x?.y || default and parsed.x?.y ?? default, for the values of this model
orDefault(option, default) == IF option = <<>> THEN default ELSE option[1]

\* parseConfigFile: << config >>, or <<>> for null
parseConfigFile(file) ==
    IF ~file.valid THEN <<>>
    ELSE << [ models |->
                [ planning     |-> orDefault(file.options["planning"],
                                             DEFAULT_CONFIG.models.planning),
                  executing    |-> orDefault(file.options["executing"],
                                             DEFAULT_CONFIG.models.executing),
                  verification |-> orDefault(file.options["verification"],
                                             DEFAULT_CONFIG.models.verification) ],
              verification |->
                [ maxRetries |-> orDefault(file.options["maxRetries"],
                                           DEFAULT_CONFIG.verification.maxRetries),
                  timeout    |-> orDefault(file.options["timeout"],
                                           DEFAULT_CONFIG.verification.timeout) ] ] >>

loadConfig(projectFile, globalFile) ==
    IF projectFile.exists /\ parseConfigFile(projectFile) # <<>>
    THEN parseConfigFile(projectFile)[1]
    ELSE IF globalFile.exists /\ parseConfigFile(globalFile) # <<>>
    THEN parseConfigFile(globalFile)[1]
    ELSE DEFAULT_CONFIG

\* a file that sets maxRetries and nothing else
maxRetriesFile(n) == ConfigFile([ o \in Options |-> IF o = "maxRetries" THEN << n >> ELSE <<>> ])

\* the configuration files of this model: no project file, and a global file
\* that is absent or sets maxRetries below the default
RunConfigFiles ==
    { [ project |-> NoConfigFile, global |-> NoConfigFile ] } \cup
    { [ project |-> NoConfigFile, global |-> maxRetriesFile(n) ] : n \in 1..(DefaultMaxRetries - 1) }

\* cli: the configuration loaded from `files` is the config prop
configured(files) ==
    /\ configFiles \in files
    /\ config = loadConfig(configFiles.project, configFiles.global)

\* the configurations of this model: maxRetries from 1 up to the default
Configs == { loadConfig(f.project, f.global) : f \in RunConfigFiles }

\* new CursorAgent({apiKey, model, workingLocation}): no prompt submitted yet
CursorAgent(model) == [ model |-> model, prompts |-> {} ]

\* the message of a submit: what it asks for, and the finding of a fix prompt
Prompt(kind, item) == [ kind |-> kind, item |-> item ]

\* agent.submit({message, onDelta}) on the agent of identity `id`
submit(heap, id, message) == [heap EXCEPT ![id].prompts = @ \cup {message}]

\* the identities of the two agents that App constructs when it mounts
planningAgent == 1
verificationAgent == 2

\* App has mounted: both useState initialisers have run and runScan has
\* submitted the slop-detection prompt
mountedAgents(cfg) ==
    submit(<< CursorAgent(cfg.models.planning), CursorAgent(cfg.models.verification) >>,
           planningAgent, Prompt("scan", ""))

\* the state of App once mounted: the initial values of its state cells, the
\* scan submitted
\* Complete is not rendered yet: its state is what its first render will hold,
\* and createPR has run no command
unmountedComplete ==
    /\ prStatus = "checking"
    /\ prPc = "idle"
    /\ currentBranch = ""
    /\ repoBranch = "main"
    /\ commandsRun = <<>>
    /\ checkPc = "rev-parse"
    /\ diffResult = <<>>

mounted ==
    /\ phase = "scanning"
    /\ slopItems = <<>>
    /\ tasks = <<>>
    /\ error = NoError
    /\ reviewSuggestions = <<>>
    /\ isReviewing = FALSE
    /\ verificationState = NoVerificationState
    /\ cursor = 0
    /\ scanResult = [exists |-> FALSE, found |-> -1]
    /\ fileGroups = <<>>
    /\ groupPc = <<>>
    /\ groupIdx = <<>>
    /\ execPc = "idle"
    /\ verPc = "idle"
    /\ verIdx = 0
    /\ verAttempt = 0
    /\ reviewPc = "idle"
    /\ exited = FALSE
    /\ loopedBack = FALSE
    /\ cycle = [passes |-> 0, fixes |-> 0]
    /\ result = <<>>
    /\ groupAgent = <<>>
    /\ notSlopFile = NoNotSlopFile
    /\ stored = <<>>
    /\ reviewFile = AnyReview
    /\ unmountedComplete
    /\ outputBufferRef = <<>>
    /\ agentOutput = <<>>
    /\ reviewKey = "none"
    /\ visited = {"scanning"}

Init ==
    /\ mounted
    /\ scanPc = "streaming"
    /\ configured(RunConfigFiles)
    /\ agents = mountedAgents(config)
    /\ project \in Projects
    /\ findingsFile \in FindingsArtifacts

setPhase(p) == phase' = p /\ visited' = visited \cup {p}

\* the view of phase p is rendered and receives input
Rendering(p) == ~exited /\ error = NoError /\ phase = p

resultsVars == <<slopItems, cursor>>
artifactVars == <<findingsFile, scanResult>>
envVars == <<configFiles, config, project>>
\* what no step after the scan changes
settledVars == <<configFiles, config, project, scanPc>>
execVars == <<fileGroups, groupPc, groupIdx, execPc>>
learnVars == <<notSlopFile, stored>>
completeVars == <<prStatus, prPc, currentBranch, repoBranch, commandsRun, checkPc, diffResult>>
verVars == <<verPc, verIdx, verAttempt, cycle>>
reviewVars == <<reviewSuggestions, isReviewing, reviewPc>>

-----------------------------------------------------------------------------
(* runScan *)

\* findings.md is read once
AlreadyRead == <<>>

\* variant of runScanStreamEnd: the results view is shown for an empty list too
runScanStreamEnd_alwaysResults ==
    /\ ~exited
    /\ scanPc = "streaming"
    /\ LET artifact == findingsFile
           items == readFindings(artifact) IN
         /\ scanResult' = [exists |-> artifact.exists, found |-> Len(items)]
         /\ findingsFile' = AlreadyRead
         /\ slopItems' = items
         /\ setPhase("results")
    /\ scanPc' = "done"
    /\ UNCHANGED <<tasks, error, verificationState, cursor, exited, loopedBack>>
    /\ UNCHANGED <<envVars, execVars, verVars, reviewVars>>
    /\ UNCHANGED <<agentOutput, reviewKey, result, learnVars, reviewFile, completeVars, agents, groupAgent, outputBufferRef>>

\* the scan stream has ended: read the findings the agent wrote
runScanStreamEnd ==
    /\ ~exited
    /\ scanPc = "streaming"
    /\ LET artifact == findingsFile
           items == readFindings(artifact) IN
         /\ scanResult' = [exists |-> artifact.exists, found |-> Len(items)]
         /\ findingsFile' = AlreadyRead
         /\ IF Len(items) > 0
            THEN slopItems' = items /\ setPhase("results")
            ELSE slopItems' = slopItems /\ setPhase("complete")
    /\ scanPc' = "done"
    /\ UNCHANGED <<tasks, error, verificationState, cursor, exited, loopedBack>>
    /\ UNCHANGED <<envVars, execVars, verVars, reviewVars>>
    /\ UNCHANGED <<agentOutput, reviewKey, result, learnVars, reviewFile, completeVars, agents, groupAgent, outputBufferRef>>

\* the planning agent raised while scanning
runScanCatch ==
    /\ ~exited
    /\ scanPc = "streaming"
    /\ error' = "scan"
    /\ scanPc' = "failed"
    /\ UNCHANGED <<phase, visited, tasks, verificationState, exited, loopedBack>>
    /\ UNCHANGED <<resultsVars, artifactVars, result, learnVars, reviewFile, completeVars, agents, groupAgent, outputBufferRef, envVars, execVars, verVars, reviewVars>>
    /\ UNCHANGED <<agentOutput, reviewKey>>

-----------------------------------------------------------------------------
(* SlopList input and the App handlers it calls *)

itemAt(items, c) == IF c >= 0 /\ c < Len(items) THEN << items[c + 1] >> ELSE <<>>

handleToggle(items, id) ==
    [ i \in 1..Len(items) |->
        IF items[i].id = id THEN [items[i] EXCEPT !.selected = ~@] ELSE items[i] ]

handleSelectAll(items) ==
    [ i \in 1..Len(items) |-> [items[i] EXCEPT !.selected = TRUE] ]

handleDeselectAll(items) ==
    [ i \in 1..Len(items) |-> [items[i] EXCEPT !.selected = FALSE] ]

handleMarkNotSlop(items, id) ==
    SelectSeq(items, LAMBDA it : it.id # id)

selectedCount(items) == Cardinality({ i \in 1..Len(items) : items[i].selected })

resultsFrame ==
    /\ UNCHANGED <<phase, visited, tasks, error, verificationState, exited, loopedBack>>
    /\ UNCHANGED <<artifactVars, result, agents, groupAgent, outputBufferRef, settledVars, execVars, verVars, reviewVars>>
    /\ UNCHANGED <<agentOutput, reviewKey>>

keyUpArrow ==
    /\ Rendering("results")
    /\ cursor' = IF cursor - 1 > 0 THEN cursor - 1 ELSE 0
    /\ UNCHANGED slopItems
    /\ resultsFrame
    /\ UNCHANGED <<learnVars, reviewFile, completeVars>>

keyDownArrow ==
    /\ Rendering("results")
    /\ cursor' = IF cursor + 1 < Len(slopItems) - 1 THEN cursor + 1 ELSE Len(slopItems) - 1
    /\ UNCHANGED slopItems
    /\ resultsFrame
    /\ UNCHANGED <<learnVars, reviewFile, completeVars>>

keySpace ==
    /\ Rendering("results")
    /\ LET item == itemAt(slopItems, cursor) IN
         /\ item # <<>>
         /\ item[1].category \notin HINT_ONLY_CATEGORIES
         /\ slopItems' = handleToggle(slopItems, item[1].id)
    /\ UNCHANGED cursor
    /\ resultsFrame
    /\ UNCHANGED <<learnVars, reviewFile, completeVars>>

keySelectAll ==
    /\ Rendering("results")
    /\ slopItems' = handleSelectAll(slopItems)
    /\ UNCHANGED cursor
    /\ resultsFrame
    /\ UNCHANGED <<learnVars, reviewFile, completeVars>>

keyDeselectAll ==
    /\ Rendering("results")
    /\ slopItems' = handleDeselectAll(slopItems)
    /\ UNCHANGED cursor
    /\ resultsFrame
    /\ UNCHANGED <<learnVars, reviewFile, completeVars>>

\* 'x' in the results view: handleMarkNotSlop stores the finding under the
\* cursor and removes it from the list
keyNotSlop ==
    /\ Rendering("results")
    /\ Len(stored) < MaxStored
    /\ LET item == itemAt(slopItems, cursor) IN
         /\ item # <<>>
         /\ slopItems' = handleMarkNotSlop(slopItems, item[1].id)
         /\ LET codeSnippet == getCodeSnippet(item[1].file, item[1].line, 3) IN
              /\ notSlopFile' = addNotSlopEntry(notSlopFile, item[1], codeSnippet)
              /\ stored' = Append(stored, NotSlopEntry(item[1], codeSnippet))
    /\ cursor' = IF cursor >= Len(slopItems) - 1 /\ cursor > 0 THEN cursor - 1 ELSE cursor
    /\ resultsFrame
    /\ UNCHANGED <<reviewFile, completeVars>>

-----------------------------------------------------------------------------
(* handleProceed, groupTasksByFile, executeTasks, executeTask *)

\* variant of selectedItemsOf: hint-only findings are not filtered out
selectedItemsOf_noHintFilter(items) ==
    SelectSeq(items, LAMBDA it : it.selected)

\* handleProceed: the findings that become tasks
selectedItemsOf(items) ==
    SelectSeq(items, LAMBDA it : it.selected /\ it.category \notin HINT_ONLY_CATEGORIES)

\* selectedItems.flatMap(item => generateTasksForSlopItem(item))
RECURSIVE generatedTasksOf(_)
generatedTasksOf(items) ==
    IF items = <<>> THEN <<>>
    ELSE generateTasksForSlopItem(Head(items)) \o generatedTasksOf(Tail(items))

groupKey(task) == IF task.file = "" THEN "unknown" ELSE task.file

\* the Map of groupTasksByFile as the sequence of its entries, in insertion order
RECURSIVE groupTasksByFileInto(_, _)
groupTasksByFileInto(groups, taskList) ==
    IF taskList = <<>> THEN groups
    ELSE LET task == Head(taskList)
             file == groupKey(task)
             has  == \E g \in 1..Len(groups) : groups[g].file = file
             next == IF has
                     THEN [ g \in 1..Len(groups) |->
                              IF groups[g].file = file
                              THEN [groups[g] EXCEPT !.tasks = Append(@, task)]
                              ELSE groups[g] ]
                     ELSE Append(groups, [file |-> file, tasks |-> <<task>>])
         IN  groupTasksByFileInto(next, Tail(taskList))

\* variant of groupTasksByFile: every task is a group of its own
groupTasksByFile_perTask(taskList) ==
    [ i \in 1..Len(taskList) |->
        [file |-> groupKey(taskList[i]), tasks |-> << taskList[i] >>] ]

groupTasksByFile(taskList) == groupTasksByFileInto(<<>>, taskList)

\* variant of setTaskStatus: the list is rebuilt from the task list that
\* executeTasks was called with, in which every task is pending
setTaskStatus_fromSnapshot(prev, id, status) ==
    [ i \in 1..Len(prev) |->
        [prev[i] EXCEPT !.status = IF prev[i].id = id THEN status ELSE "pending"] ]

\* setTasks(prev => prev.map(t => t.id === id ? {...t, status} : t))
setTaskStatus(prev, id, status) ==
    [ i \in 1..Len(prev) |->
        IF prev[i].id = id THEN [prev[i] EXCEPT !.status = status] ELSE prev[i] ]

\* executeTask up to its await: the task is marked in_progress, unless its
\* finding is not among the selected items
executeTaskBegin(prev, task, selectedItems) ==
    IF \E k \in 1..Len(selectedItems) : selectedItems[k].id = task.slopItemId
    THEN setTaskStatus(prev, task.id, "in_progress")
    ELSE prev

\* executeTask up to its await: the line appended to the agent output
executeTaskBeginOutput(prev, task, selectedItems) ==
    IF \E k \in 1..Len(selectedItems) : selectedItems[k].id = task.slopItemId
    THEN Append(prev, "Starting: " \o task.title)
    ELSE prev

\* the agent output after every group's callback has run to its first await
RECURSIVE startFileGroupsOutput(_, _, _)
startFileGroupsOutput(prev, groups, selectedItems) ==
    IF groups = <<>> THEN prev
    ELSE startFileGroupsOutput(
             executeTaskBeginOutput(prev, Head(groups).tasks[1], selectedItems),
             Tail(groups), selectedItems)

\* variant of startFileGroups: a pool of one, only the first group is started
startFileGroups_onlyFirst(prev, groups, selectedItems) ==
    IF groups = <<>> THEN prev
    ELSE executeTaskBegin(prev, Head(groups).tasks[1], selectedItems)

\* executeTasks up to await Promise.all: every group's callback has run to the
\* await in executeTask of the group's first task
RECURSIVE startFileGroups(_, _, _)
startFileGroups(prev, groups, selectedItems) ==
    IF groups = <<>> THEN prev
    ELSE startFileGroups(executeTaskBegin(prev, Head(groups).tasks[1], selectedItems),
                         Tail(groups), selectedItems)

\* generateFixPrompt(slopItem)
generateFixPrompt(slopItem) == Prompt("fix", slopItem.id)

\* executeTask up to its await: the fix prompt of the task's finding is
\* submitted to `agent`, unless the finding is not among the selected items
executeTaskSubmit(heap, agent, task, selectedItems) ==
    IF \E k \in 1..Len(selectedItems) : selectedItems[k].id = task.slopItemId
    THEN LET slopItem == CHOOSE it \in { selectedItems[k] : k \in 1..Len(selectedItems) } :
                            it.id = task.slopItemId
         IN  submit(heap, agent, generateFixPrompt(slopItem))
    ELSE heap

\* variant of executeTasksAgent: one agent, constructed once, for every group
executeTasksAgent_shared(g) == verificationAgent + 1

\* the identity of the agent that the callback of group g constructs: the
\* g-th CursorAgent constructed after the two of App
executeTasksAgent(g) == verificationAgent + g

\* the agents after the callbacks of the groups from g on have run to their
\* first await: each has constructed its agent and submitted its first task
RECURSIVE startFileGroupsAgents(_, _, _, _, _)
startFileGroupsAgents(heap, groups, g, selectedItems, cfg) ==
    IF g > Len(groups) THEN heap
    ELSE LET agent == executeTasksAgent(g)
             constructed == IF agent \in DOMAIN heap THEN heap
                            ELSE Append(heap, CursorAgent(cfg.models.executing))
         IN  startFileGroupsAgents(
                 executeTaskSubmit(constructed, agent, groups[g].tasks[1], selectedItems),
                 groups, g + 1, selectedItems, cfg)

\* what the task executor leaves untouched
\* prev.slice(-n)
slice(prev, n) ==
    IF Len(prev) <= n THEN prev ELSE SubSeq(prev, Len(prev) - n + 1, Len(prev))

\* the string that the buffered deltas make up
RECURSIVE text(_)
text(chunks) == IF chunks = <<>> THEN "" ELSE Head(chunks) \o text(Tail(chunks))

\* bufferRef.current.slice(0, 120): a delta without newline is of 120 / MaxBuffered
\* characters, so that the first 120 characters are the first MaxBuffered deltas
lineOf(buffer) ==
    text(IF Len(buffer) <= MaxBuffered THEN buffer ELSE SubSeq(buffer, 1, MaxBuffered))

\* flushBuffer(outputBufferRef, setAgentOutput): the buffer and the output after it
flushBuffer(buffer, prev) ==
    IF buffer # <<>>
    THEN [ buffer |-> <<>>, output |-> Append(slice(prev, 10), lineOf(buffer)) ]
    ELSE [ buffer |-> buffer, output |-> prev ]

\* processTextDelta(text, outputBufferRef, setAgentOutput) for a delta that is
\* `chunk`, followed by a newline or not: the buffer and the output after it
processTextDelta(buffer, prev, chunk, newline) ==
    LET current == Append(buffer, chunk) IN
    IF newline
    THEN [ buffer |-> <<>>, output |-> Append(slice(prev, 10), lineOf(current)) ]
    ELSE IF Len(current) > MaxBuffered
    THEN [ buffer |-> <<>>, output |-> Append(slice(prev, 10), lineOf(current)) ]
    ELSE [ buffer |-> current, output |-> prev ]

execFrame ==
    /\ UNCHANGED <<error, verificationState, exited, loopedBack>>
    /\ UNCHANGED <<resultsVars, settledVars, reviewVars>>

\* ENTER in the results view
handleProceed ==
    /\ Rendering("results")
    /\ selectedCount(slopItems) > 0
    /\ LET selectedItems  == selectedItemsOf(slopItems)
           generatedTasks == generatedTasksOf(selectedItems)
           groups         == groupTasksByFile(generatedTasks)
       IN  /\ fileGroups' = groups
           /\ tasks' = startFileGroups(generatedTasks, groups, selectedItems)
           /\ agentOutput' = startFileGroupsOutput(agentOutput, groups, selectedItems)
           /\ groupPc' = [ g \in 1..Len(groups) |-> "streaming" ]
           /\ groupIdx' = [ g \in 1..Len(groups) |-> 1 ]
           /\ groupAgent' = [ g \in 1..Len(groups) |-> executeTasksAgent(g) ]
           /\ agents' = startFileGroupsAgents(agents, groups, 1, selectedItems, config)
           \* executeTask empties the buffer before it submits
           /\ outputBufferRef' = IF Len(groups) > 0 THEN <<>> ELSE outputBufferRef
    /\ setPhase("executing")
    /\ execPc' = "awaiting"
    /\ cursor' = 0      \* SlopList is unmounted; its next mount starts at useState(0)
    /\ UNCHANGED <<slopItems, findingsFile, scanResult, result, learnVars, reviewFile, completeVars, error, verificationState, exited, loopedBack>>
    /\ UNCHANGED <<settledVars, verVars, reviewVars>>
    /\ UNCHANGED reviewKey

currentTask(g) == fileGroups[g].tasks[groupIdx[g]]

\* the fix stream of group g's current task has ended
executeTaskResolve(g) ==
    /\ ~exited
    /\ groupPc[g] = "streaming"
    /\ tasks' = setTaskStatus(tasks, currentTask(g).id, "completed")
    /\ groupPc' = [groupPc EXCEPT ![g] = "between"]
    /\ UNCHANGED <<phase, visited, fileGroups, groupIdx, execPc, artifactVars, result, learnVars, reviewFile, completeVars, agents, groupAgent, verVars>>
    /\ execFrame
    /\ UNCHANGED reviewKey
    /\ LET flushed == flushBuffer(outputBufferRef, agentOutput) IN
       /\ outputBufferRef' = flushed.buffer
       /\ agentOutput' = Append(flushed.output, "Completed: " \o currentTask(g).title)

\* what an agent's stream raises: an Error with a message, or another value
StreamErrors ==
    { [isError |-> TRUE, message |-> "boom"], [isError |-> FALSE, value |-> "boom"] }

\* err instanceof Error ? err.message : String(err)
messageOf(err) == IF err.isError THEN err.message ELSE err.value

\* executeTask's catch: the line appended to the agent output
failedLine(task, message) == "Failed: " \o task.title \o " - " \o message

\* variant of executeTaskCatch: the failure ends the group's loop
executeTaskCatch_abortGroup(g) ==
    /\ ~exited
    /\ groupPc[g] = "streaming"
    /\ tasks' = setTaskStatus(tasks, fileGroups[g].tasks[groupIdx[g]].id, "failed")
    /\ groupPc' = [groupPc EXCEPT ![g] = "done"]
    /\ UNCHANGED <<phase, visited, fileGroups, groupIdx, execPc, artifactVars, result, learnVars, reviewFile, completeVars, agents, groupAgent, outputBufferRef, verVars>>
    /\ execFrame
    /\ UNCHANGED reviewKey
    /\ \E err \in StreamErrors :
         agentOutput' = Append(agentOutput, failedLine(currentTask(g), messageOf(err)))

\* variant of executeTaskCatch: the failure is shown by the error display
executeTaskCatch_setError(g) ==
    /\ ~exited
    /\ groupPc[g] = "streaming"
    /\ tasks' = setTaskStatus(tasks, fileGroups[g].tasks[groupIdx[g]].id, "failed")
    /\ groupPc' = [groupPc EXCEPT ![g] = "between"]
    /\ error' = "task"
    /\ UNCHANGED <<phase, visited, fileGroups, groupIdx, execPc, artifactVars, result, learnVars, reviewFile, completeVars, agents, groupAgent, outputBufferRef, verVars>>
    /\ UNCHANGED <<verificationState, exited, loopedBack, agentOutput, reviewKey>>
    /\ UNCHANGED <<resultsVars, settledVars, reviewVars>>

\* the agent raised while executing group g's current task
executeTaskCatch(g) ==
    /\ ~exited
    /\ groupPc[g] = "streaming"
    /\ tasks' = setTaskStatus(tasks, currentTask(g).id, "failed")
    /\ groupPc' = [groupPc EXCEPT ![g] = "between"]
    /\ UNCHANGED <<phase, visited, fileGroups, groupIdx, execPc, artifactVars, result, learnVars, reviewFile, completeVars, agents, groupAgent, outputBufferRef, verVars>>
    /\ execFrame
    /\ UNCHANGED reviewKey
    /\ \E err \in StreamErrors :
         agentOutput' = Append(agentOutput, failedLine(currentTask(g), messageOf(err)))

\* group g's loop goes on to its next task, or ends
fileGroupNext(g) ==
    /\ ~exited
    /\ groupPc[g] = "between"
    /\ IF groupIdx[g] < Len(fileGroups[g].tasks)
       THEN /\ groupIdx' = [groupIdx EXCEPT ![g] = @ + 1]
            /\ tasks' = executeTaskBegin(tasks, fileGroups[g].tasks[groupIdx[g] + 1],
                                         selectedItemsOf(slopItems))
            /\ agentOutput' = executeTaskBeginOutput(agentOutput,
                                   fileGroups[g].tasks[groupIdx[g] + 1],
                                   selectedItemsOf(slopItems))
            /\ outputBufferRef' = <<>>
            /\ agents' = executeTaskSubmit(agents, groupAgent[g],
                                           fileGroups[g].tasks[groupIdx[g] + 1],
                                           selectedItemsOf(slopItems))
            /\ groupPc' = [groupPc EXCEPT ![g] = "streaming"]
       ELSE /\ groupPc' = [groupPc EXCEPT ![g] = "done"]
            /\ UNCHANGED <<groupIdx, tasks, agentOutput, outputBufferRef, agents>>
    /\ UNCHANGED <<phase, visited, fileGroups, execPc, artifactVars, result, learnVars, reviewFile, completeVars, groupAgent, verVars>>
    /\ execFrame
    /\ UNCHANGED reviewKey

\* the text that the agent of group g streams
deltaText(g) == "~" \o fileGroups[g].file

\* the texts that the agents stream: one per file group, one for the
\* verification fix and one for the review
DeltaTexts == { "~" \o f : f \in Files } \cup {"~fix", "~review"}

\* the lines that streamed text makes up
DeltaLines == { lineOf(b) : b \in SeqUpTo(DeltaTexts, MaxBuffered) \ {<<>>} }

\* the streamed lines in the agent output and the text deltas in the buffer
streamedNow ==
    Cardinality({ i \in 1..Len(agentOutput) : agentOutput[i] \in DeltaLines })
        + Len(outputBufferRef)

\* onDelta for an update of type 'text-delta' whose text is `chunk`, followed
\* by a newline or not, while less streamed text than `limit` is on display
onTextDelta(chunk, limit) ==
    /\ ~exited
    /\ streamedNow < limit
    /\ \E newline \in BOOLEAN :
         LET r == processTextDelta(outputBufferRef, agentOutput, chunk, newline) IN
         /\ outputBufferRef' = r.buffer
         /\ agentOutput' = r.output
    /\ UNCHANGED <<phase, visited, tasks, artifactVars, result, learnVars, reviewFile, completeVars, agents, groupAgent, verVars>>
    /\ UNCHANGED <<error, verificationState, exited, loopedBack>>
    /\ UNCHANGED <<resultsVars, settledVars, reviewVars, execVars>>
    /\ UNCHANGED reviewKey

\* executeTask's onDelta: the agent of group g streams a text delta
onDelta(g) ==
    /\ groupPc[g] = "streaming"
    /\ onTextDelta(deltaText(g), MaxOutput)

\* the same, for agents that stream enough text to fill the buffer
onDeltaFilling(g) ==
    /\ groupPc[g] = "streaming"
    /\ onTextDelta(deltaText(g), MaxOutput + MaxBuffered)

\* executeVerification's onDelta: the verification agent streams a text delta
\* during the fix
fixOnDelta ==
    /\ verPc = "fix"
    /\ onTextDelta("~fix", MaxOutput)

\* runReview's onDelta: the planning agent streams a text delta during the review
reviewOnDelta ==
    /\ reviewPc = "streaming"
    /\ onTextDelta("~review", MaxOutput)

\* variant of allGroupsSettled: the first group to finish resolves the join
anyGroupSettled == \E g \in 1..Len(fileGroups) : groupPc[g] = "done"

allGroupsSettled == \A g \in 1..Len(fileGroups) : groupPc[g] = "done"

-----------------------------------------------------------------------------
(* runVerification, executeVerification, runReview *)

\* runReview up to its await
runReviewBegin ==
    /\ setPhase("reviewing")
    /\ isReviewing' = TRUE
    /\ reviewSuggestions' = <<>>
    /\ outputBufferRef' = <<>>
    /\ agents' = submit(agents, planningAgent, Prompt("review", ""))
    /\ reviewPc' = "streaming"

setCommandStatus(vs, i, status) ==
    [vs EXCEPT !.commands = [ idx \in 1..Len(@) |->
        IF idx = i + 1 THEN [@[idx] EXCEPT !.status = status] ELSE @[idx] ]]

\* executeVerification, loop head: command i is shown as running
markRunning(vs, i) ==
    [setCommandStatus(vs, i, "running") EXCEPT !.currentCommandIndex = i]

\* variant of freshCommands: the statuses of the failed pass are kept
freshCommands_keepStatus(commands) == commands

\* the commands of the next attempt: `commands` with every status pending
freshCommands(commands) ==
    [ idx \in 1..Len(commands) |-> [commands[idx] EXCEPT !.status = "pending"] ]

\* variant of executeVerificationStep: a required failure does not break the loop
executeVerificationStep_noBreak(vs, i, attempt, maxRetries, success) ==
    LET cmd    == vs.commands[i + 1]
        status == IF success THEN "passed"
                  ELSE IF cmd.optional THEN "skipped" ELSE "failed"
        marked == setCommandStatus(vs, i, status)
        anyFailed == \E k \in 1..Len(marked.commands) : marked.commands[k].status = "failed"
    IN  IF i + 1 < Len(vs.commands)
        THEN [ state |-> markRunning(marked, i + 1), pc |-> "command", i |-> i + 1 ]
        ELSE IF ~anyFailed
        THEN [ state |-> [marked EXCEPT !.status = "passed"], pc |-> "review", i |-> i ]
        ELSE IF attempt < maxRetries
        THEN [ state |-> [marked EXCEPT !.status = "fixing"], pc |-> "fix", i |-> i ]
        ELSE [ state |-> [marked EXCEPT !.status = "failed"], pc |-> "idle", i |-> i ]

\* variant of executeVerificationStep: a failing required command is left
\* marked running
executeVerificationStep_staleRunning(vs, i, attempt, maxRetries, success) ==
    LET cmd == vs.commands[i + 1] IN
    IF ~success /\ ~cmd.optional
    THEN IF attempt < maxRetries
         THEN [ state |-> [vs EXCEPT !.status = "fixing"], pc |-> "fix", i |-> i ]
         ELSE [ state |-> [vs EXCEPT !.status = "failed"], pc |-> "idle", i |-> i ]
    ELSE LET marked == setCommandStatus(vs, i, IF success THEN "passed" ELSE "skipped") IN
         IF i + 1 < Len(vs.commands)
         THEN [ state |-> markRunning(marked, i + 1), pc |-> "command", i |-> i + 1 ]
         ELSE [ state |-> [marked EXCEPT !.status = "passed"], pc |-> "review", i |-> i ]

\* variant of executeVerificationStep: a failing optional command is treated as
\* a failing required one
executeVerificationStep_optionalFails(vs, i, attempt, maxRetries, success) ==
    IF ~success
    THEN LET failed == setCommandStatus(vs, i, "failed") IN
         IF attempt < maxRetries
         THEN [ state |-> [failed EXCEPT !.status = "fixing"], pc |-> "fix", i |-> i ]
         ELSE [ state |-> [failed EXCEPT !.status = "failed"], pc |-> "idle", i |-> i ]
    ELSE LET marked == setCommandStatus(vs, i, "passed") IN
         IF i + 1 < Len(vs.commands)
         THEN [ state |-> markRunning(marked, i + 1), pc |-> "command", i |-> i + 1 ]
         ELSE [ state |-> [marked EXCEPT !.status = "passed"], pc |-> "review", i |-> i ]

\* variant of executeVerificationStep: the retry test is attempt <= maxRetries
executeVerificationStep_offByOne(vs, i, attempt, maxRetries, success) ==
    LET cmd == vs.commands[i + 1] IN
    IF ~success /\ ~cmd.optional
    THEN LET failed == setCommandStatus(vs, i, "failed") IN
         IF attempt <= maxRetries
         THEN [ state |-> [failed EXCEPT !.status = "fixing"], pc |-> "fix", i |-> i ]
         ELSE [ state |-> [failed EXCEPT !.status = "failed"], pc |-> "idle", i |-> i ]
    ELSE LET marked == setCommandStatus(vs, i, IF success THEN "passed" ELSE "skipped") IN
         IF i + 1 < Len(vs.commands)
         THEN [ state |-> markRunning(marked, i + 1), pc |-> "command", i |-> i + 1 ]
         ELSE [ state |-> [marked EXCEPT !.status = "passed"], pc |-> "review", i |-> i ]

\* variant of executeVerificationStep: when the retries are used up the run goes
\* on to the review by itself
executeVerificationStep_reviewAnyway(vs, i, attempt, maxRetries, success) ==
    LET cmd == vs.commands[i + 1] IN
    IF ~success /\ ~cmd.optional
    THEN LET failed == setCommandStatus(vs, i, "failed") IN
         IF attempt < maxRetries
         THEN [ state |-> [failed EXCEPT !.status = "fixing"], pc |-> "fix", i |-> i ]
         ELSE [ state |-> [failed EXCEPT !.status = "failed"], pc |-> "review", i |-> i ]
    ELSE LET marked == setCommandStatus(vs, i, IF success THEN "passed" ELSE "skipped") IN
         IF i + 1 < Len(vs.commands)
         THEN [ state |-> markRunning(marked, i + 1), pc |-> "command", i |-> i + 1 ]
         ELSE [ state |-> [marked EXCEPT !.status = "passed"], pc |-> "review", i |-> i ]

\* executeVerification from the result of command i to its next await or its end:
\* the new VerificationState and where the function continues
executeVerificationStep(vs, i, attempt, maxRetries, success) ==
    LET cmd == vs.commands[i + 1] IN
    IF ~success /\ ~cmd.optional
    THEN \* required failure: break, then fix or give up
         LET failed == setCommandStatus(vs, i, "failed") IN
         IF attempt < maxRetries
         THEN [ state |-> [failed EXCEPT !.status = "fixing"], pc |-> "fix", i |-> i ]
         ELSE [ state |-> [failed EXCEPT !.status = "failed"], pc |-> "idle", i |-> i ]
    ELSE LET marked == setCommandStatus(vs, i, IF success THEN "passed" ELSE "skipped") IN
         IF i + 1 < Len(vs.commands)
         THEN [ state |-> markRunning(marked, i + 1), pc |-> "command", i |-> i + 1 ]
         ELSE [ state |-> [marked EXCEPT !.status = "passed"], pc |-> "review", i |-> i ]

\* executeVerification, loop head: the line that announces command i
runningLine(prev, commands, i) == Append(prev, "Running: " \o commands[i + 1].command)

\* executeVerification from the result of command i to its next await or its
\* end: the agent output.  `output` is result.output.split('\n').
executeVerificationOutput(prev, vs, i, attempt, maxRetries, output, pc) ==
    LET outputLines == slice(output, 10)
        shown == slice(prev, 5) \o outputLines IN
    IF pc = "command" THEN runningLine(shown, vs.commands, i + 1)
    ELSE IF pc = "fix"
    THEN Append(shown, "Attempting to fix verification failure (attempt "
                       \o ToString(attempt) \o "/" \o ToString(maxRetries) \o ")...")
    ELSE shown

\* variant of runVerification: the phase is not set to verifying
runVerification_noSetPhase ==
    /\ ~exited
    /\ execPc = "awaiting"
    /\ allGroupsSettled
    /\ execPc' = "idle"
    /\ fileGroups' = <<>>       \* executeTasks has returned: its locals are gone
    /\ groupPc' = <<>>
    /\ groupIdx' = <<>>
    /\ groupAgent' = <<>>
    /\ LET commands == discoverVerificationCommands(project)
           \* the agents that the groups' callbacks had constructed are gone
           kept == SubSeq(agents, 1, verificationAgent) IN
       IF Len(commands) = 0
       THEN \* setAgentOutput([]); runReview() to its await
            /\ phase' = "reviewing"
            /\ visited' = visited \cup {"reviewing"}
            /\ agentOutput' = <<>>
            /\ isReviewing' = TRUE
            /\ reviewSuggestions' = <<>>
            /\ outputBufferRef' = <<>>
            /\ agents' = submit(kept, planningAgent, Prompt("review", ""))
            /\ reviewPc' = "streaming"
            /\ verPc' = "idle"
            /\ UNCHANGED <<verificationState, verIdx, verAttempt, cycle>>
       ELSE /\ UNCHANGED <<phase, visited>>
            \* setVerificationState(initialState); executeVerification to its await
            /\ verificationState' =
                << markRunning([ commands            |-> commands,
                                 currentCommandIndex |-> 0,
                                 attempt             |-> 1,
                                 maxAttempts         |-> config.verification.maxRetries,
                                 status              |-> "running" ], 0) >>
            /\ verPc' = "command"
            /\ verIdx' = 0
            /\ verAttempt' = 1
            /\ cycle' = [passes |-> 1, fixes |-> 0]
            /\ agentOutput' = runningLine(<<>>, commands, 0)
            /\ agents' = kept
            /\ UNCHANGED <<reviewVars, outputBufferRef>>
    /\ UNCHANGED <<tasks, error, exited, loopedBack>>
    /\ UNCHANGED <<resultsVars, artifactVars, result, learnVars, reviewFile, completeVars, settledVars>>
    /\ UNCHANGED reviewKey

\* Promise.all has resolved and executeTasks calls runVerification, which runs to
\* its first await in one synchronous block: the phase is set, the commands are
\* discovered, and either runReview runs to its await (no command) or
\* executeVerification marks the first command running and spawns it
runVerification ==
    /\ ~exited
    /\ execPc = "awaiting"
    /\ allGroupsSettled
    /\ execPc' = "idle"
    /\ fileGroups' = <<>>       \* executeTasks has returned: its locals are gone
    /\ groupPc' = <<>>
    /\ groupIdx' = <<>>
    /\ groupAgent' = <<>>
    /\ LET commands == discoverVerificationCommands(project)
           \* the agents that the groups' callbacks had constructed are gone
           kept == SubSeq(agents, 1, verificationAgent) IN
       IF Len(commands) = 0
       THEN \* setPhase('verifying'); setAgentOutput([]); runReview() to its await
            /\ phase' = "reviewing"
            /\ visited' = visited \cup {"verifying", "reviewing"}
            /\ agentOutput' = <<>>
            /\ isReviewing' = TRUE
            /\ reviewSuggestions' = <<>>
            /\ outputBufferRef' = <<>>
            /\ agents' = submit(kept, planningAgent, Prompt("review", ""))
            /\ reviewPc' = "streaming"
            /\ verPc' = "idle"
            /\ UNCHANGED <<verificationState, verIdx, verAttempt, cycle>>
       ELSE /\ setPhase("verifying")
            \* setVerificationState(initialState); executeVerification to its await
            /\ verificationState' =
                << markRunning([ commands            |-> commands,
                                 currentCommandIndex |-> 0,
                                 attempt             |-> 1,
                                 maxAttempts         |-> config.verification.maxRetries,
                                 status              |-> "running" ], 0) >>
            /\ verPc' = "command"
            /\ verIdx' = 0
            /\ verAttempt' = 1
            /\ cycle' = [passes |-> 1, fixes |-> 0]
            /\ agentOutput' = runningLine(<<>>, commands, 0)
            /\ agents' = kept
            /\ UNCHANGED <<reviewVars, outputBufferRef>>
    /\ UNCHANGED <<tasks, error, exited, loopedBack>>
    /\ UNCHANGED <<resultsVars, artifactVars, result, learnVars, reviewFile, completeVars, settledVars>>
    /\ UNCHANGED reviewKey

\* What becomes of the spawned shell: the 'close' event with an exit code, the
\* 'close' event with a null code (<<>>: killed by a signal, which is also how
\* the timeout ends it), or the 'error' event (the shell could not be spawned)
\* What the process wrote to stdout and stderr by then: the parts between the
\* newlines of its last 10,000 characters (`lines`: text that ends with a
\* newline has an empty last part), and whether more than these came before
ExitCodes == 0..2
printed(lines) == [ more |-> FALSE, lines |-> lines ]
ProcessOutputs ==
    { printed(<< "" >>), printed(<< "out", "" >>),
      printed([ n \in 1..12 |-> IF n = 12 THEN "" ELSE "out " \o ToString(n) ]),
      [ more |-> TRUE, lines |-> << "tail", "" >> ] }
ProcessOutcomes ==
    { [event |-> "close", code |-> << n >>, message |-> "", output |-> o] :
        n \in ExitCodes, o \in ProcessOutputs } \cup
    { [event |-> "close", code |-> <<>>, message |-> "", output |-> o] :
        o \in ProcessOutputs } \cup
    { [event |-> "error", code |-> <<>>, message |-> "spawn sh ENOENT",
       output |-> printed(<< "" >>)] }

\* the outcomes of a command that runs to its end and reports in one line
ExitOutcomes ==
    { [event |-> "close", code |-> << 0 >>, message |-> "", output |-> printed(<< "ok", "" >>)],
      [event |-> "close", code |-> << 1 >>, message |-> "",
       output |-> printed(<< "error", "" >>)] }

\* truncateOutput(output, 10000), split at the newlines
truncateOutput(output) ==
    IF ~output.more THEN output.lines ELSE << "...[truncated]..." >> \o output.lines

\* variant of runVerificationCommand: a null exit code is reported as 0
runVerificationCommand_nullIsZero(outcome) ==
    IF outcome.event = "error"
    THEN [ success  |-> FALSE,
           output   |-> << "Failed to run command: " \o outcome.message >>
                        \o outcome.output.lines,
           exitCode |-> 1 ]
    ELSE [ success  |-> outcome.code = << 0 >>,
           output   |-> truncateOutput(outcome.output),
           exitCode |-> IF outcome.code = <<>> THEN 0 ELSE outcome.code[1] ]

\* the VerificationResult the promise resolves with: success, output (split at
\* the newlines) and exitCode
runVerificationCommand(outcome) ==
    IF outcome.event = "error"
    THEN [ success  |-> FALSE,
           output   |-> << "Failed to run command: " \o outcome.message >>
                        \o outcome.output.lines,
           exitCode |-> 1 ]
    ELSE [ success  |-> outcome.code = << 0 >>,
           output   |-> truncateOutput(outcome.output),
           exitCode |-> IF outcome.code = <<>> THEN 1 ELSE outcome.code[1] ]

\* runVerificationCommand has resolved for command verIdx, the process having
\* ended in one of `outcomes`
runVerificationCommandSettle(outcomes) ==
    /\ ~exited
    /\ verPc = "command"
    /\ \E outcome \in outcomes :
         LET res == runVerificationCommand(outcome)
             success == res.success
             r == executeVerificationStep(verificationState[1], verIdx, verAttempt,
                                          config.verification.maxRetries, success)
         IN  /\ result' = << [ outcome |-> outcome, success |-> res.success,
                               output |-> res.output, exitCode |-> res.exitCode ] >>
             /\ verificationState' = << r.state >>
             \* the locals i and attempt are gone once the loop or the function ends
             /\ verIdx' = IF r.pc = "command" THEN r.i ELSE 0
             /\ verAttempt' = IF r.pc \in {"command", "fix"} THEN verAttempt ELSE 0
             \* the fix prompt is submitted in the same synchronous block
             /\ cycle' = IF r.pc = "fix" THEN [cycle EXCEPT !.fixes = @ + 1] ELSE cycle
             /\ agentOutput' = executeVerificationOutput(agentOutput, verificationState[1],
                                    verIdx, verAttempt, config.verification.maxRetries,
                                    res.output, r.pc)
             /\ IF r.pc = "review"
                THEN verPc' = "idle" /\ runReviewBegin
                ELSE /\ verPc' = r.pc
                     \* the fix is submitted with an empty buffer
                     /\ outputBufferRef' = IF r.pc = "fix" THEN <<>> ELSE outputBufferRef
                     /\ agents' = IF r.pc = "fix"
                                  THEN submit(agents, verificationAgent,
                                              Prompt("verification-fix", ""))
                                  ELSE agents
                     /\ UNCHANGED <<phase, visited, reviewVars>>
    /\ UNCHANGED <<tasks, error, exited, loopedBack>>
    /\ UNCHANGED <<resultsVars, artifactVars, learnVars, reviewFile, completeVars, groupAgent, settledVars, execVars>>
    /\ UNCHANGED reviewKey

\* the same, for a command that runs to its end with exit code 0 or 1
runVerificationCommandResolve == runVerificationCommandSettle(ExitOutcomes)

\* the verification-fix stream has ended: reset, next attempt
fixStreamEnd ==
    /\ ~exited
    /\ verPc = "fix"
    /\ verificationState' =
         << markRunning([verificationState[1] EXCEPT
                            !.commands = freshCommands(@),
                            !.attempt = verAttempt + 1,
                            !.status = "running"], 0) >>
    /\ verAttempt' = verAttempt + 1
    /\ cycle' = [cycle EXCEPT !.passes = @ + 1]
    /\ verIdx' = 0
    /\ verPc' = "command"
    /\ UNCHANGED <<phase, visited, tasks, error, exited, loopedBack>>
    /\ UNCHANGED <<resultsVars, artifactVars, result, learnVars, reviewFile, completeVars, agents, groupAgent, settledVars, execVars, reviewVars>>
    /\ UNCHANGED reviewKey
    /\ LET flushed == flushBuffer(outputBufferRef, agentOutput) IN
       /\ outputBufferRef' = flushed.buffer
       /\ agentOutput' = runningLine(flushed.output, verificationState[1].commands, 0)

\* variant of fixCatch: the failure is shown by the error display
fixCatch_setError ==
    /\ ~exited
    /\ verPc = "fix"
    /\ error' = "fix"
    /\ verPc' = "idle"
    /\ verAttempt' = 0
    /\ UNCHANGED <<phase, visited, tasks, verificationState, exited, loopedBack, verIdx, cycle>>
    /\ UNCHANGED <<resultsVars, artifactVars, result, learnVars, reviewFile, completeVars, agents, groupAgent, outputBufferRef, settledVars, execVars, reviewVars>>
    /\ UNCHANGED <<agentOutput, reviewKey>>

\* the verification agent raised during the fix
fixCatch ==
    /\ ~exited
    /\ verPc = "fix"
    /\ verificationState' = << [verificationState[1] EXCEPT !.status = "failed"] >>
    /\ verPc' = "idle"
    /\ verAttempt' = 0
    /\ UNCHANGED <<phase, visited, tasks, error, exited, loopedBack, verIdx, cycle>>
    /\ UNCHANGED <<resultsVars, artifactVars, result, learnVars, reviewFile, completeVars, agents, groupAgent, outputBufferRef, settledVars, execVars, reviewVars>>
    /\ UNCHANGED <<agentOutput, reviewKey>>

\* variant of showPrompt: the keys are read whatever the status
showPrompt_anyStatus ==
    /\ Rendering("verifying")
    /\ verificationState # NoVerificationState

\* VerificationRunner: the prompt is shown
showPrompt ==
    /\ Rendering("verifying")
    /\ verificationState # NoVerificationState
    /\ verificationState[1].status = "failed"

\* variant of handleVerificationRetry: the retry goes on from the attempt reached
handleVerificationRetry_keepAttempt ==
    /\ showPrompt
    /\ verificationState' =
         << markRunning([verificationState[1] EXCEPT
                            !.commands = freshCommands(@),
                            !.status = "running"], 0) >>
    /\ verAttempt' = verificationState[1].attempt
    /\ UNCHANGED cycle
    /\ verIdx' = 0
    /\ verPc' = "command"
    /\ UNCHANGED <<phase, visited, tasks, error, exited, loopedBack>>
    /\ UNCHANGED <<resultsVars, artifactVars, result, learnVars, reviewFile, completeVars, agents, groupAgent, outputBufferRef, settledVars, execVars, reviewVars>>
    /\ UNCHANGED reviewKey
    /\ agentOutput' = runningLine(agentOutput, verificationState[1].commands, 0)

\* 'r' in the verification view
handleVerificationRetry ==
    /\ showPrompt
    /\ verificationState' =
         << markRunning([verificationState[1] EXCEPT
                            !.commands = freshCommands(@),
                            !.attempt = 1,
                            !.status = "running"], 0) >>
    /\ verAttempt' = 1
    /\ cycle' = [passes |-> 1, fixes |-> 0]
    /\ verIdx' = 0
    /\ verPc' = "command"
    /\ UNCHANGED <<phase, visited, tasks, error, exited, loopedBack>>
    /\ UNCHANGED <<resultsVars, artifactVars, result, learnVars, reviewFile, completeVars, agents, groupAgent, outputBufferRef, settledVars, execVars, reviewVars>>
    /\ UNCHANGED reviewKey
    /\ agentOutput' = runningLine(agentOutput, verificationState[1].commands, 0)

\* 's' in the verification view
handleVerificationSkip ==
    /\ showPrompt
    /\ runReviewBegin
    /\ UNCHANGED <<tasks, error, verificationState, exited, loopedBack>>
    /\ UNCHANGED <<resultsVars, artifactVars, result, learnVars, reviewFile, completeVars, groupAgent, settledVars, execVars, verVars>>
    /\ UNCHANGED reviewKey
    /\ UNCHANGED agentOutput

\* 'q' in the verification view
verificationQuit ==
    /\ showPrompt
    /\ exited' = TRUE
    /\ UNCHANGED <<phase, visited, tasks, error, verificationState, loopedBack>>
    /\ UNCHANGED <<resultsVars, artifactVars, result, learnVars, reviewFile, completeVars, agents, groupAgent, outputBufferRef, settledVars, execVars, verVars, reviewVars>>
    /\ UNCHANGED <<agentOutput, reviewKey>>

\* the review stream has ended: read the suggestions the agent wrote
runReviewStreamEnd ==
    /\ ~exited
    /\ reviewPc = "streaming"
    /\ \E doc \in (IF reviewFile = AnyReview THEN ReviewArtifacts ELSE {reviewFile}) :
         reviewSuggestions' = readReview(doc)
    /\ isReviewing' = FALSE
    /\ reviewPc' = "idle"
    /\ UNCHANGED <<phase, visited, tasks, error, verificationState, exited, loopedBack>>
    /\ UNCHANGED <<resultsVars, artifactVars, result, learnVars, reviewFile, completeVars, agents, groupAgent, settledVars, execVars, verVars>>
    /\ UNCHANGED reviewKey
    /\ LET flushed == flushBuffer(outputBufferRef, agentOutput) IN
       /\ outputBufferRef' = flushed.buffer
       /\ agentOutput' = flushed.output

\* the planning agent raised while reviewing
runReviewCatch ==
    /\ ~exited
    /\ reviewPc = "streaming"
    /\ error' = "review"
    /\ reviewPc' = "idle"
    /\ UNCHANGED <<phase, visited, tasks, verificationState, exited, loopedBack,
                   reviewSuggestions, isReviewing>>
    /\ UNCHANGED <<resultsVars, artifactVars, result, learnVars, reviewFile, completeVars, agents, groupAgent, outputBufferRef, settledVars, execVars, verVars>>
    /\ UNCHANGED <<agentOutput, reviewKey>>

-----------------------------------------------------------------------------
(* ReviewResults input and the App handlers it calls *)

\* variant of suggestionToSlopItem: the new finding is not pre-selected
suggestionToSlopItem_unselected(suggestion, index) ==
    [ id          |-> "review-slop-" \o ToString(index),
      title       |-> suggestion.title,
      description |-> suggestion.description,
      file        |-> suggestion.file,
      line        |-> suggestion.line,
      severity    |-> suggestion.severity,
      category    |-> "style-inconsistency",
      selected    |-> FALSE ]

suggestionToSlopItem(suggestion, index) ==
    [ id          |-> "review-slop-" \o ToString(index),
      title       |-> suggestion.title,
      description |-> suggestion.description,
      file        |-> suggestion.file,
      line        |-> suggestion.line,
      severity    |-> suggestion.severity,
      category    |-> "style-inconsistency",
      selected    |-> TRUE ]

\* App.handleApplySuggestions
handleApplySuggestions ==
    /\ slopItems' = [ k \in 1..Len(reviewSuggestions) |->
                        suggestionToSlopItem(reviewSuggestions[k], k - 1) ]
    /\ tasks' = <<>>
    /\ agentOutput' = <<>>
    /\ reviewSuggestions' = <<>>
    /\ setPhase("results")
    /\ loopedBack' = TRUE

\* variant of handleSkipReview: the task list is cleared on the way out
handleSkipReview_clearTasks ==
    /\ setPhase("complete")
    /\ tasks' = <<>>
    /\ UNCHANGED <<slopItems, agentOutput, reviewSuggestions, loopedBack>>

\* App.handleSkipReview
handleSkipReview ==
    /\ setPhase("complete")
    /\ UNCHANGED <<slopItems, tasks, agentOutput, reviewSuggestions, loopedBack>>

\* ReviewResults.useInput returns at once while the review is loading
reviewInput == Rendering("reviewing") /\ ~isReviewing

\* the key is not handled: no state of the App changes
reviewNoop ==
    UNCHANGED <<phase, visited, slopItems, tasks, agentOutput, reviewSuggestions, loopedBack>>

reviewFrame ==
    /\ UNCHANGED <<error, verificationState, cursor, exited, isReviewing, reviewPc>>
    /\ UNCHANGED <<artifactVars, result, learnVars, reviewFile, completeVars, agents, groupAgent, outputBufferRef, settledVars, execVars, verVars>>

\* 'a' in the review view
reviewKeyApply ==
    /\ reviewInput
    /\ reviewKey' = "a"
    /\ IF Len(reviewSuggestions) > 0 THEN handleApplySuggestions ELSE reviewNoop
    /\ reviewFrame

\* 's' in the review view: taken by the branch `input === 's' || key.return`
reviewKeySkip ==
    /\ reviewInput
    /\ reviewKey' = "s"
    /\ IF Len(reviewSuggestions) = 0 THEN handleSkipReview ELSE reviewNoop
    /\ reviewFrame

\* ENTER in the review view
reviewKeyReturn ==
    /\ reviewInput
    /\ reviewKey' = "return"
    /\ IF Len(reviewSuggestions) = 0 THEN handleSkipReview ELSE reviewNoop
    /\ reviewFrame

\* ENTER or 'q' in the error view
errorDisplayExit ==
    /\ ~exited
    /\ error # NoError
    /\ exited' = TRUE
    /\ UNCHANGED <<phase, visited, tasks, error, verificationState, loopedBack>>
    /\ UNCHANGED <<resultsVars, artifactVars, result, learnVars, reviewFile, completeVars, agents, groupAgent, outputBufferRef, settledVars, execVars, verVars, reviewVars>>
    /\ UNCHANGED <<agentOutput, reviewKey>>

-----------------------------------------------------------------------------

Next ==
    \/ runScanStreamEnd
    \/ runScanCatch
    \/ keyUpArrow
    \/ keyDownArrow
    \/ keySpace
    \/ keySelectAll
    \/ keyDeselectAll
    \/ keyNotSlop
    \/ handleProceed
    \/ \E g \in 1..Len(fileGroups) : onDelta(g)
    \/ \E g \in 1..Len(fileGroups) : executeTaskResolve(g)
    \/ \E g \in 1..Len(fileGroups) : executeTaskCatch(g)
    \/ \E g \in 1..Len(fileGroups) : fileGroupNext(g)
    \/ runVerification
    \/ runVerificationCommandResolve
    \/ fixOnDelta
    \/ fixStreamEnd
    \/ fixCatch
    \/ handleVerificationRetry
    \/ handleVerificationSkip
    \/ verificationQuit
    \/ reviewOnDelta
    \/ runReviewStreamEnd
    \/ runReviewCatch
    \/ reviewKeyApply
    \/ reviewKeySkip
    \/ reviewKeyReturn
    \/ errorDisplayExit

Spec == Init /\ [][Next]_vars

\* The event loop runs the continuation of an await that has settled: the loop
\* of a file group goes on after executeTask has returned, and executeTasks calls
\* runVerification after Promise.all has resolved.  Nothing is assumed of the
\* user, of the spawned processes or of the agents: no agent call has a timeout,
\* so a stream need not ever end.
eventLoopStep ==
    \/ \E g \in 1..Len(fileGroups) : fileGroupNext(g)
    \/ runVerification

FairSpec == Spec /\ WF_vars(eventLoopStep)

\* the assumption that a fix stream in flight ends or raises
streamsEnd ==
    WF_vars(\E g \in 1..Len(fileGroups) : executeTaskResolve(g) \/ executeTaskCatch(g))

-----------------------------------------------------------------------------
(* Properties *)

-----------------------------------------------------------------------------
(* discoverVerificationCommands on its own: runVerification on every       *)
(* combination of manifests, from the state in which it is called          *)

Unreadable == [exists |-> TRUE, valid |-> FALSE, names |-> {}]

\* the project directories of the discovery specification
DiscoverProjects ==
    [ packageJson : { NoManifest, Unreadable, Manifest({}), Manifest({"test"}),
                      Manifest({"build", "lint"}) },
      cargoToml   : BOOLEAN,
      pyproject   : { NoManifest, Unreadable, Manifest({}), Manifest({"pytest"}),
                      Manifest({"pytest", "mypy"}) },
      goMod       : BOOLEAN,
      makefile    : { NoManifest, Unreadable, Manifest({}), Manifest({"test"}) } ]

\* the finding of the run that leads to DiscoverInit
hintOnlyFinding ==
    [ id |-> "slop-0", title |-> "Dead comment", description |-> "restates code",
      file |-> "a.ts", line |-> 42, severity |-> "high", category |-> "ui-slop",
      selected |-> TRUE ]

\* executeTasks is about to call runVerification: the scan found one ui-slop
\* finding, the user selected all and proceeded, and Promise.all has resolved
\* on the empty list of file groups
DiscoverInit ==
    /\ phase = "executing"
    /\ slopItems = << hintOnlyFinding >>
    /\ tasks = <<>>
    /\ error = NoError
    /\ reviewSuggestions = <<>>
    /\ isReviewing = FALSE
    /\ verificationState = NoVerificationState
    /\ cursor = 0
    /\ configured(RunConfigFiles)
    /\ project \in DiscoverProjects
    /\ findingsFile = AlreadyRead
    /\ scanResult = [exists |-> TRUE, found |-> 1]
    /\ scanPc = "done"
    /\ fileGroups = <<>>
    /\ groupPc = <<>>
    /\ groupIdx = <<>>
    /\ execPc = "awaiting"
    /\ verPc = "idle"
    /\ verIdx = 0
    /\ verAttempt = 0
    /\ reviewPc = "idle"
    /\ exited = FALSE
    /\ loopedBack = FALSE
    /\ cycle = [passes |-> 0, fixes |-> 0]
    /\ result = <<>>
    /\ agents = mountedAgents(config)
    /\ groupAgent = <<>>
    /\ notSlopFile = NoNotSlopFile
    /\ stored = <<>>
    /\ reviewFile = AnyReview
    /\ unmountedComplete
    /\ outputBufferRef = <<>>
    /\ agentOutput = <<>>
    /\ reviewKey = "none"
    /\ visited = {"scanning", "results", "executing"}

DiscoverNext == runVerification

DiscoverSpec == DiscoverInit /\ [][DiscoverNext]_vars

\* The reading of findings.md in isolation, for documents in and out of the
\* prompt's format
wellFormedIssue ==
    writeIssue([ severity |-> "HIGH", title |-> "Dead comment", file |-> "a.ts",
                 line |-> 42, category |-> "extra-comments",
                 description |-> "restates code" ])

\* issue blocks in the prompt's format: those of IssueBlocks, one of medium
\* severity, one whose description quotes a markdown heading
WellFormedBlocks ==
    { writeIssue(b) : b \in IssueBlocks } \cup
    { [wellFormedIssue EXCEPT ![1].severity = "MEDIUM"],
      [wellFormedIssue EXCEPT ![5].value = << "adds a", Marker, "Overview section" >>] }

Fields == {"File", "Line", "Category", "Description"}

\* the block without its bullet for `field`
omit(block, field) ==
    SelectSeq(block, LAMBDA l : l.kind # "bullet" \/ l.field # field)

\* issue blocks out of the format: a bullet missing, all bullets missing, a
\* category in another letter case, a line that is not a number
MalformedBlocks ==
    { omit(wellFormedIssue, f) : f \in Fields } \cup
    { << wellFormedIssue[1] >>,
      [wellFormedIssue EXCEPT ![4].value = << "UI-Slop" >>],
      [wellFormedIssue EXCEPT ![3].value = << "n/a" >>] }

\* the documents, with and without a newline at their end
ParseDocuments ==
    LET written == findingsOf(WellFormedBlocks \cup MalformedBlocks) IN
    written \cup { withFinalNewline(doc) : doc \in { d \in written : d.exists } }

ParseInit ==
    /\ mounted
    /\ scanPc = "streaming"
    /\ configured({ [ project |-> NoConfigFile, global |-> NoConfigFile ] })
    /\ agents = mountedAgents(config)
    /\ project = EmptyProject
    /\ findingsFile \in ParseDocuments

ParseNext == runScanStreamEnd

ParseSpec == ParseInit /\ [][ParseNext]_vars

\* The start of the run: cli loads the configuration, then renders App
ProjectOptions ==
    [ planning : {<<>>, << "project-model" >>}, executing : {<<>>, << "project-model" >>},
      verification : {<<>>}, maxRetries : {<<>>, << 1 >>}, timeout : {<<>>, << 60 >>} ]

GlobalOptions ==
    [ planning : {<<>>, << "global-model" >>}, executing : {<<>>, << "global-model" >>},
      verification : {<<>>}, maxRetries : {<<>>, << 2 >>}, timeout : {<<>>, << 120 >>} ]

LoadedConfigFiles ==
    [ project : {NoConfigFile, BrokenConfigFile} \cup { ConfigFile(o) : o \in ProjectOptions },
      global  : {NoConfigFile, BrokenConfigFile} \cup { ConfigFile(o) : o \in GlobalOptions } ]

ConfigInit ==
    /\ mounted
    /\ scanPc = "cli"
    /\ configFiles \in LoadedConfigFiles
    /\ config = <<>>
    /\ agents = <<>>
    /\ project = EmptyProject
    /\ findingsFile = [exists |-> FALSE, content |-> <<>>]

cliFrame ==
    /\ UNCHANGED <<phase, visited, tasks, error, verificationState, exited, loopedBack>>
    /\ UNCHANGED <<resultsVars, artifactVars, project, execVars, verVars, reviewVars>>
    /\ UNCHANGED <<agentOutput, reviewKey, result, learnVars, reviewFile, completeVars, groupAgent, outputBufferRef>>

\* a string as its characters; the texts typed into the prompt, the keys of
\* the environment and of the keychain; of keychain.ts only the calls are
\* known: getApiKey resolves to a key or null, storeApiKey resolves or rejects
NoKey == <<>>
ApiKey == << "k" >>
KeyTexts == { <<>>, << " " >>, ApiKey, << " ", "k", " " >> }

RECURSIVE trimStart(_)
trimStart(typed) ==
    IF typed # <<>> /\ Head(typed) = " " THEN trimStart(Tail(typed)) ELSE typed

RECURSIVE trimEnd(_)
trimEnd(typed) ==
    IF typed # <<>> /\ typed[Len(typed)] = " " THEN trimEnd(SubSeq(typed, 1, Len(typed) - 1)) ELSE typed

trimText(typed) == trimEnd(trimStart(typed))

\* Main: the prompt unless the key is truthy, else App with the loaded config
renderMain(apiKey) ==
    IF apiKey = NoKey
    THEN scanPc' = "prompt" /\ agents' = agents
    ELSE scanPc' = "streaming" /\ agents' = mountedAgents(config)

\* the default command up to its await: const config = loadConfig(directory);
\* with CURSOR_API_KEY set Main is rendered at once
cliLoadConfig ==
    /\ scanPc = "cli"
    /\ config' = loadConfig(configFiles.project, configFiles.global)
    /\ \E env \in {NoKey, ApiKey} :
         IF env # NoKey
         THEN scanPc' = "streaming" /\ agents' = mountedAgents(config')
         ELSE scanPc' = "getApiKey" /\ agents' = agents
    /\ UNCHANGED configFiles
    /\ cliFrame

\* await getApiKey() has resolved: render(<Main initialApiKey={apiKey} />)
cliGetApiKey ==
    /\ scanPc = "getApiKey"
    /\ \E apiKey \in {NoKey, ApiKey} : renderMain(apiKey)
    /\ UNCHANGED <<configFiles, config>>
    /\ cliFrame

\* ApiKeyPrompt.handleSubmit: ENTER on the typed text; a blank text is
\* ignored, otherwise Main.handleApiKeySubmit runs up to await storeApiKey
handleSubmit ==
    /\ scanPc = "prompt"
    /\ \E typed \in KeyTexts :
         scanPc' = IF trimText(typed) # <<>> THEN "storeApiKey" ELSE scanPc
    /\ UNCHANGED <<configFiles, config, agents>>
    /\ cliFrame

\* storeApiKey has resolved: setApiKey(key), Main renders App; or it has
\* rejected: the key stays null and the prompt stays in its saving view
handleApiKeySubmit ==
    /\ scanPc = "storeApiKey"
    /\ \E resolved \in BOOLEAN :
         IF resolved THEN renderMain(ApiKey)
         ELSE scanPc' = "saving" /\ agents' = agents
    /\ UNCHANGED <<configFiles, config>>
    /\ cliFrame

\* getDefaultConfigContent: the file that sets every option to the value of cfg
getDefaultConfigContent(cfg) ==
    ConfigFile([ o \in Options |->
                 << CASE o = "planning" -> cfg.models.planning
                      [] o = "executing" -> cfg.models.executing
                      [] o = "verification" -> cfg.models.verification
                      [] o = "maxRetries" -> cfg.verification.maxRetries
                      [] o = "timeout" -> cfg.verification.timeout >> ])

\* `deslop init`, run before this run: createProjectConfig throws if the
\* project has a deslop.toml, else it writes one from the loaded configuration
createProjectConfig ==
    /\ scanPc = "cli"
    /\ configFiles' =
         IF configFiles.project.exists THEN configFiles
         ELSE [configFiles EXCEPT !.project =
                 getDefaultConfigContent(loadConfig(configFiles.project, configFiles.global))]
    /\ UNCHANGED <<config, agents, scanPc>>
    /\ cliFrame

loadGlobalConfig(globalFile) ==
    IF globalFile.exists /\ parseConfigFile(globalFile) # <<>>
    THEN parseConfigFile(globalFile)[1]
    ELSE DEFAULT_CONFIG

\* the models ConfigEditor offers, and a custom one
ModelChoices == {"claude-4.5-haiku", "custom-model"}

\* `deslop config`, run before this run: ConfigEditor starts from
\* loadGlobalConfig(), the user sets one of the models or none, and 'Save and
\* exit' calls createGlobalConfig with the result
createGlobalConfig ==
    /\ scanPc = "cli"
    /\ LET currentConfig == loadGlobalConfig(configFiles.global) IN
       \E newConfig \in {currentConfig} \cup
                { [currentConfig EXCEPT !.models[f] = m] :
                    f \in {"planning", "executing", "verification"}, m \in ModelChoices } :
         configFiles' = [configFiles EXCEPT !.global = getDefaultConfigContent(newConfig)]
    /\ UNCHANGED <<config, agents, scanPc>>
    /\ cliFrame

ConfigNext ==
    \/ createProjectConfig
    \/ createGlobalConfig
    \/ cliLoadConfig
    \/ cliGetApiKey
    \/ handleSubmit
    \/ handleApiKeySubmit
    \/ runScanCatch

ConfigSpec == ConfigInit /\ [][ConfigNext]_vars

\* The executing phase with agents that stream text
BufferInit ==
    /\ mounted
    /\ scanPc = "streaming"
    /\ configured({ [ project |-> NoConfigFile, global |-> NoConfigFile ] })
    /\ agents = mountedAgents(config)
    /\ project = EmptyProject
    /\ findingsFile \in FindingsArtifacts

BufferNext ==
    \/ runScanStreamEnd
    \/ keySelectAll
    \/ handleProceed
    \/ \E g \in 1..Len(fileGroups) : onDeltaFilling(g)
    \/ \E g \in 1..Len(fileGroups) : executeTaskResolve(g)
    \/ \E g \in 1..Len(fileGroups) : executeTaskCatch(g)
    \/ \E g \in 1..Len(fileGroups) : fileGroupNext(g)

BufferSpec == BufferInit /\ [][BufferNext]_vars

\* The task executor on its own, from the scan to the call of runVerification,
\* for findings.md of up to ExecFindings blocks: two tasks of one file and a
\* task of another can be in one cycle
ExecFindings == MaxFindings + 1

ExecArtifacts ==
    { [exists |-> TRUE, content |-> writeFindings(b)] :
        b \in SeqUpTo({ writeIssue(b) : b \in IssueBlocks }, ExecFindings) }

ExecInit ==
    /\ mounted
    /\ scanPc = "streaming"
    /\ configured({ [ project |-> NoConfigFile, global |-> NoConfigFile ] })
    /\ agents = mountedAgents(config)
    /\ project \in Projects
    /\ findingsFile \in ExecArtifacts

ExecNext ==
    \/ runScanStreamEnd
    \/ keySelectAll
    \/ handleProceed
    \/ \E g \in 1..Len(fileGroups) : onDelta(g)
    \/ \E g \in 1..Len(fileGroups) : executeTaskResolve(g)
    \/ \E g \in 1..Len(fileGroups) : executeTaskCatch(g)
    \/ \E g \in 1..Len(fileGroups) : fileGroupNext(g)
    \/ runVerification

ExecSpec == ExecInit /\ [][ExecNext]_vars

ExecFairSpec == ExecSpec /\ WF_vars(eventLoopStep)

\* The verification pass in isolation, every process outcome possible
RunnerNext ==
    \/ runVerification
    \/ runVerificationCommandSettle(ProcessOutcomes)

RunnerSpec == DiscoverInit /\ [][RunnerNext]_vars

-----------------------------------------------------------------------------
(* The learnings store on its own: the results view of a scan whose        *)
(* findings lie in a TypeScript file and in a markdown file, with the      *)
(* not-slop.md that an earlier run has left                                *)

\* the findings of the scan: with and without a line number, in files of the
\* directory and in one that is not there
LearnFindings ==
    [ title : {"Dead comment"}, description : {"restates code"},
      file : {"a.ts", "LOG.md", "locked.ts", "gone.ts"}, line : {0, 5}, severity : {"high"},
      category : {"extra-comments"}, selected : {FALSE} ]

\* the results list of the scan: findings.md numbers the findings
LearnLists ==
    { [ k \in 1..Len(l) |->
          [ id |-> "slop-" \o ToString(k - 1), title |-> l[k].title,
            description |-> l[k].description, file |-> l[k].file, line |-> l[k].line,
            severity |-> l[k].severity, category |-> l[k].category,
            selected |-> l[k].selected ] ] : l \in SeqUpTo(LearnFindings, MaxEntries) \ {<<>>} }

\* the finding an earlier run has marked: the first lines of a.ts
EarlierFinding ==
    [ id |-> "slop-0", title |-> "Dead comment", description |-> "restates code",
      file |-> "a.ts", line |-> 0, severity |-> "high",
      category |-> "extra-comments", selected |-> FALSE ]

LearnInit ==
    /\ phase = "results"
    /\ slopItems \in LearnLists
    /\ tasks = <<>>
    /\ error = NoError
    /\ reviewSuggestions = <<>>
    /\ isReviewing = FALSE
    /\ verificationState = NoVerificationState
    /\ cursor = 0
    /\ configured(RunConfigFiles)
    /\ project \in Projects
    /\ findingsFile = AlreadyRead
    /\ scanResult = [exists |-> TRUE, found |-> Len(slopItems)]
    /\ scanPc = "done"
    /\ fileGroups = <<>>
    /\ groupPc = <<>>
    /\ groupIdx = <<>>
    /\ execPc = "idle"
    /\ verPc = "idle"
    /\ verIdx = 0
    /\ verAttempt = 0
    /\ reviewPc = "idle"
    /\ exited = FALSE
    /\ loopedBack = FALSE
    /\ cycle = [passes |-> 0, fixes |-> 0]
    /\ result = <<>>
    /\ agents = mountedAgents(config)
    /\ groupAgent = <<>>
    /\ \E earlier \in BOOLEAN :
         LET codeSnippet == getCodeSnippet(EarlierFinding.file, EarlierFinding.line, 3) IN
         /\ notSlopFile = IF earlier
                          THEN addNotSlopEntry(NoNotSlopFile, EarlierFinding, codeSnippet)
                          ELSE NoNotSlopFile
         /\ stored = IF earlier THEN << NotSlopEntry(EarlierFinding, codeSnippet) >>
                     ELSE <<>>
    /\ reviewFile = AnyReview
    /\ unmountedComplete
    /\ outputBufferRef = <<>>
    /\ agentOutput = <<>>
    /\ reviewKey = "none"
    /\ visited = {"scanning", "results"}

LearnNext ==
    \/ keyNotSlop
    \/ keyUpArrow
    \/ keyDownArrow

LearnSpec == LearnInit /\ [][LearnNext]_vars

-----------------------------------------------------------------------------
(* The reading of review.md in isolation: the run of DiscoverInit in a     *)
(* project without verification commands, for review documents in the      *)
(* prompt's format                                                         *)

wellFormedSuggestion ==
    writeSuggestion([ severity |-> "HIGH", title |-> "Follow-up", file |-> "a.ts",
                      line |-> 7, description |-> "incomplete fix" ])

\* suggestion blocks in the prompt's format: the plain one, one of medium
\* severity, and blocks whose description says that the rest looks good, quotes
\* the words "No suggestions" or quotes a markdown heading
ReviewBlocks ==
    { wellFormedSuggestion,
      [wellFormedSuggestion EXCEPT ![1].severity = "MEDIUM"],
      [wellFormedSuggestion EXCEPT ![4].value = << "the rest", "looks good" >>],
      [wellFormedSuggestion EXCEPT ![4].value = << "prints", "No suggestions", "twice" >>],
      [wellFormedSuggestion EXCEPT ![4].value = << "adds a", Marker, "TODO heading" >>] }

\* the documents the reviewing agent leaves: none, the prompt's "No Suggestions"
\* document, one with the sentinel in other words, and up to MaxSuggestions + 1
\* suggestion blocks
ReviewDocuments ==
    { [exists |-> FALSE, content |-> <<>>],
      [exists |-> TRUE, content |-> noSuggestionsReview],
      [exists |-> TRUE, content |-> << h1Line, paraLine(<< "NO_SUGGESTIONS" >>) >>] } \cup
    { [exists |-> TRUE, content |-> writeReview(b)] :
        b \in SeqUpTo(ReviewBlocks, MaxSuggestions + 1) \ {<<>>} }

ReviewInit ==
    /\ phase = "executing"
    /\ slopItems = << hintOnlyFinding >>
    /\ tasks = <<>>
    /\ error = NoError
    /\ reviewSuggestions = <<>>
    /\ isReviewing = FALSE
    /\ verificationState = NoVerificationState
    /\ cursor = 0
    /\ configured({ [ project |-> NoConfigFile, global |-> NoConfigFile ] })
    /\ project = EmptyProject
    /\ findingsFile = AlreadyRead
    /\ scanResult = [exists |-> TRUE, found |-> 1]
    /\ scanPc = "done"
    /\ fileGroups = <<>>
    /\ groupPc = <<>>
    /\ groupIdx = <<>>
    /\ execPc = "awaiting"
    /\ verPc = "idle"
    /\ verIdx = 0
    /\ verAttempt = 0
    /\ reviewPc = "idle"
    /\ exited = FALSE
    /\ loopedBack = FALSE
    /\ cycle = [passes |-> 0, fixes |-> 0]
    /\ result = <<>>
    /\ agents = mountedAgents(config)
    /\ groupAgent = <<>>
    /\ notSlopFile = NoNotSlopFile
    /\ stored = <<>>
    /\ reviewFile \in ReviewDocuments
    /\ unmountedComplete
    /\ outputBufferRef = <<>>
    /\ agentOutput = <<>>
    /\ reviewKey = "none"
    /\ visited = {"scanning", "results", "executing"}

ReviewNext ==
    \/ runVerification
    \/ runReviewStreamEnd
    \/ reviewKeyApply
    \/ reviewKeySkip
    \/ reviewKeyReturn

ReviewSpec == ReviewInit /\ [][ReviewNext]_vars

-----------------------------------------------------------------------------
(* components/Complete.tsx: the summary view and the pull request.  The    *)
(* repository is the branch that is checked out; every command that is run *)
(* ends with exit code 0 or not.                                           *)

\* the branches the run may end on
Branches == {"main", "master", "deslop-fixes"}

\* `deslop/${Date.now()}`
newBranchName == "deslop/now"

\* what a failed command prints instead of its result
errorOutput == "error"

completeFrame ==
    /\ UNCHANGED <<phase, visited, slopItems, cursor, tasks, error, verificationState, loopedBack>>
    /\ UNCHANGED <<artifactVars, result, learnVars, reviewFile, agents, groupAgent, outputBufferRef, settledVars, execVars, verVars, reviewVars>>
    /\ UNCHANGED <<agentOutput, reviewKey>>

\* checkGitStatus: the status after the three git commands
gitStatusOf(isGitRepo, diffQuiet, diffStagedQuiet) ==
    IF ~isGitRepo THEN "not-git"
    ELSE IF diffQuiet /\ diffStagedQuiet THEN "no-changes"
    ELSE "prompt"

\* the effect of Complete's first render runs checkGitStatus up to its first
\* await; `git rev-parse --is-inside-work-tree` has ended
checkGitStatus ==
    /\ Rendering("complete")
    /\ checkPc = "rev-parse"
    /\ \E isGitRepo \in BOOLEAN :
         IF ~isGitRepo
         THEN prStatus' = gitStatusOf(FALSE, FALSE, FALSE) /\ checkPc' = "done"
         ELSE prStatus' = prStatus /\ checkPc' = "diff"
    /\ UNCHANGED <<prPc, currentBranch, repoBranch, commandsRun, diffResult, exited>>
    /\ completeFrame

\* `git diff --quiet` has ended: checkGitStatus keeps its result and runs the
\* next command
checkGitStatusDiff ==
    /\ Rendering("complete")
    /\ checkPc = "diff"
    /\ \E diffQuiet \in BOOLEAN : diffResult' = << diffQuiet >>
    /\ checkPc' = "diff-staged"
    /\ UNCHANGED <<prStatus, prPc, currentBranch, repoBranch, commandsRun, exited>>
    /\ completeFrame

\* `git diff --staged --quiet` has ended
checkGitStatusDiffStaged ==
    /\ Rendering("complete")
    /\ checkPc = "diff-staged"
    /\ \E diffStagedQuiet \in BOOLEAN :
         prStatus' = gitStatusOf(TRUE, diffResult[1], diffStagedQuiet)
    /\ checkPc' = "done"
    /\ UNCHANGED <<prPc, currentBranch, repoBranch, commandsRun, diffResult, exited>>
    /\ completeFrame

\* Complete.useInput returns at once unless the prompt is shown
completeInput == Rendering("complete") /\ prStatus = "prompt"

\* 'y' in the complete view: createPR up to its first await
completeKeyYes ==
    /\ completeInput
    /\ prStatus' = "creating"
    /\ prPc' = "branch"
    /\ UNCHANGED <<currentBranch, repoBranch, commandsRun, checkPc, diffResult, exited>>
    /\ completeFrame

\* 'n' or ESC in the complete view
completeKeyNo ==
    /\ completeInput
    /\ exited' = TRUE
    /\ UNCHANGED completeVars
    /\ completeFrame

\* runCommand has resolved: the entry of the history for it
ran(step, success) == [ step |-> step, success |-> success, branch |-> repoBranch ]

\* the catch of createPR
createPRCatch == prStatus' = "error" /\ prPc' = "idle"

\* git branch --show-current has ended: its output is taken as the branch,
\* whatever its exit code
createPRBranch ==
    /\ ~exited
    /\ prPc = "branch"
    /\ \E success \in BOOLEAN :
         /\ currentBranch' = IF success THEN repoBranch ELSE errorOutput
         /\ commandsRun' = Append(commandsRun, ran("branch", success))
    /\ prPc' = IF currentBranch' = "main" \/ currentBranch' = "master" THEN "checkout" ELSE "add"
    /\ UNCHANGED <<prStatus, repoBranch, checkPc, diffResult, exited>>
    /\ completeFrame

\* a checked command of createPR has ended: on success createPR goes on to
\* `next`, otherwise it throws
createPRStep(step, next) ==
    /\ ~exited
    /\ prPc = step
    /\ \E success \in BOOLEAN :
         /\ commandsRun' = Append(commandsRun, ran(step, success))
         /\ repoBranch' = IF step = "checkout" /\ success THEN newBranchName ELSE repoBranch
         /\ IF ~success THEN createPRCatch
            ELSE IF next = "done"
            THEN prStatus' = "done" /\ prPc' = "idle"
            ELSE prStatus' = prStatus /\ prPc' = next
    /\ UNCHANGED <<currentBranch, checkPc, diffResult, exited>>
    /\ completeFrame

createPRCheckout == createPRStep("checkout", "add")
createPRStage == createPRStep("add", "commit")
createPRCommit == createPRStep("commit", "push")
createPRPush == createPRStep("push", "pr")
createPRCreate == createPRStep("pr", "done")

\* The complete view on its own: the run has ended without findings, on one of
\* the branches
CompleteInit ==
    /\ phase = "complete"
    /\ slopItems = <<>>
    /\ tasks = <<>>
    /\ error = NoError
    /\ reviewSuggestions = <<>>
    /\ isReviewing = FALSE
    /\ verificationState = NoVerificationState
    /\ cursor = 0
    /\ configured({ [ project |-> NoConfigFile, global |-> NoConfigFile ] })
    /\ project = EmptyProject
    /\ findingsFile = AlreadyRead
    /\ scanResult \in { [exists |-> e, found |-> 0] : e \in BOOLEAN }
    /\ scanPc = "done"
    /\ fileGroups = <<>>
    /\ groupPc = <<>>
    /\ groupIdx = <<>>
    /\ execPc = "idle"
    /\ verPc = "idle"
    /\ verIdx = 0
    /\ verAttempt = 0
    /\ reviewPc = "idle"
    /\ exited = FALSE
    /\ loopedBack = FALSE
    /\ cycle = [passes |-> 0, fixes |-> 0]
    /\ result = <<>>
    /\ agents = mountedAgents(config)
    /\ groupAgent = <<>>
    /\ notSlopFile = NoNotSlopFile
    /\ stored = <<>>
    /\ reviewFile = AnyReview
    /\ prStatus = "checking"
    /\ prPc = "idle"
    /\ currentBranch = ""
    /\ repoBranch \in Branches
    /\ commandsRun = <<>>
    /\ checkPc = "rev-parse"
    /\ diffResult = <<>>
    /\ outputBufferRef = <<>>
    /\ agentOutput = <<>>
    /\ reviewKey = "none"
    /\ visited = {"scanning", "complete"}

CompleteNext ==
    \/ checkGitStatus
    \/ checkGitStatusDiff
    \/ checkGitStatusDiffStaged
    \/ completeKeyYes
    \/ completeKeyNo
    \/ createPRBranch
    \/ createPRCheckout
    \/ createPRStage
    \/ createPRCommit
    \/ createPRPush
    \/ createPRCreate

CompleteSpec == CompleteInit /\ [][CompleteNext]_vars

-----------------------------------------------------------------------------
(* Properties *)

settled(task) == task.status \in {"completed", "failed"}

PhaseEdges ==
    { <<"scanning", "results">>, <<"scanning", "complete">>,
      <<"results", "executing">>, <<"executing", "verifying">>,
      <<"verifying", "reviewing">>, <<"reviewing", "results">>,
      <<"reviewing", "complete">> }

\* the step in which executeTasks calls runVerification
runsDiscovery == execPc = "awaiting" /\ execPc' = "idle"

\* C1 as stated: the phase changes only along scanning->results,
\* scanning->complete, results->executing, executing->verifying,
\* verifying->reviewing, reviewing->results and reviewing->complete; in
\* particular it never leaves complete.
C1_PhaseEdges == [][phase' # phase => <<phase, phase'>> \in PhaseEdges]_vars

\* C1, amended: the phase changes only along the seven edges above and along
\* executing->reviewing, which is taken exactly by the call of runVerification
\* that discovers no command (it sets verifying and reviewing in one
\* synchronous block); executing->verifying is taken only by a call that
\* discovers a command; the phase never leaves complete.
C1_PhaseEdgesOrSkippedVerifying ==
    [][/\ phase' # phase =>
            \/ <<phase, phase'>> \in PhaseEdges
            \/ <<phase, phase'>> = <<"executing", "reviewing">>
       /\ phase = "executing" /\ phase' # phase =>
            /\ runsDiscovery
            /\ "verifying" \in visited'
            /\ phase' = IF discoverVerificationCommands(project) = <<>>
                        THEN "reviewing" ELSE "verifying"
       /\ phase = "complete" => phase' = "complete"]_vars

\* C1 witness: a run without verification commands that looped back once and
\* ended: it went from executing to reviewing twice, verifying was set on the way
C1_Witness ==
    /\ phase = "complete"
    /\ loopedBack
    /\ visited = Phases
    /\ discoverVerificationCommands(project) = <<>>

\* C2: when the scan read zero findings (findings.md missing included) the phase
\* is complete and no phase but scanning and complete was ever entered; when it
\* read at least one, results was entered, and nothing else before it.
C2_ZeroFindingsComplete ==
    /\ scanResult.found = 0 =>
         phase = "complete" /\ visited = {"scanning", "complete"}
    /\ scanResult.found > 0 =>
         /\ phase # "scanning"
         /\ "results" \in visited
         /\ visited \ {"scanning", "results"} # {} => "executing" \in visited

\* C2 witness: the stream ended and findings.md does not exist
C2_Witness == scanPc = "done" /\ ~scanResult.exists /\ phase = "complete"

\* C3: every task refers to a finding whose category is not hint-only, also
\* when a hint-only finding is selected.
C3_NoTaskForHintOnly ==
    \A i \in 1..Len(tasks) :
        \E k \in 1..Len(slopItems) :
            /\ slopItems[k].id = tasks[i].slopItemId
            /\ slopItems[k].category # "ui-slop"

\* C3 witness: tasks were created while a selected ui-slop finding was in the list
C3_Witness ==
    /\ phase = "executing"
    /\ tasks # <<>>
    /\ \E k \in 1..Len(slopItems) :
           slopItems[k].category = "ui-slop" /\ slopItems[k].selected

\* C4: a hint-only finding is never selected.
C4_HintOnlyNeverSelected ==
    \A k \in 1..Len(slopItems) :
        slopItems[k].category = "ui-slop" => ~slopItems[k].selected

\* the findings that are selected and not ui-slop, in list order
fixable == SelectSeq(slopItems, LAMBDA it : it.selected /\ it.category # "ui-slop")

\* C5: from the proceed transition on, the task list is the list of the
\* findings that are selected and not hint-only, in finding order: one task
\* each, with id "task-" + finding id, slopItemId the finding id and the
\* finding's file; a task no group has begun yet is pending.
C5_TasksFromSelection ==
    phase \in {"executing", "verifying", "reviewing"} =>
        /\ Len(tasks) = Len(fixable)
        /\ \A i \in 1..Len(tasks) :
             /\ tasks[i].id = "task-" \o fixable[i].id
             /\ tasks[i].slopItemId = fixable[i].id
             /\ tasks[i].file = fixable[i].file
        /\ \A g \in 1..Len(fileGroups) :
             \A k \in (groupIdx[g] + 1)..Len(fileGroups[g].tasks) :
                \A i \in 1..Len(tasks) :
                   tasks[i].id = fileGroups[g].tasks[k].id => tasks[i].status = "pending"

\* C5 witness: right after proceed, one task per selected finding, the second
\* one of its file not begun yet
C5_Witness ==
    /\ phase = "executing"
    /\ Len(tasks) = 2
    /\ Len(fixable) = 2
    /\ tasks[1].status = "in_progress"
    /\ tasks[2].status = "pending"

\* C6: two tasks of the same file are never in progress together, and a task
\* has left pending only if every earlier task of its file is completed or
\* failed.
C6_SameFileSequential ==
    \A i \in 1..Len(tasks) : \A j \in (i + 1)..Len(tasks) :
        tasks[i].file = tasks[j].file =>
            /\ ~(tasks[i].status = "in_progress" /\ tasks[j].status = "in_progress")
            /\ tasks[j].status # "pending" => settled(tasks[i])

\* C6 witness: the second task of a file runs after the first has finished
C6_Witness ==
    \E i \in 1..Len(tasks) : \E j \in (i + 1)..Len(tasks) :
        /\ tasks[i].file = tasks[j].file
        /\ settled(tasks[i])
        /\ tasks[j].status = "in_progress"

\* the first task of the file of tasks[i]
firstOfFile(i) == \A j \in 1..(i - 1) : tasks[j].file # tasks[i].file

\* C7: all file-groups are started together: as long as no task of the cycle
\* has finished, the first task of every file is in progress.
C7_GroupsStartTogether ==
    (phase = "executing" /\ \A i \in 1..Len(tasks) : ~settled(tasks[i])) =>
        \A i \in 1..Len(tasks) : firstOfFile(i) => tasks[i].status = "in_progress"

\* C7 witness: the first tasks of two files are in progress at the same time
C7_Witness ==
    \E i \in 1..Len(tasks) : \E j \in 1..Len(tasks) :
        /\ tasks[i].file # tasks[j].file
        /\ tasks[i].status = "in_progress"
        /\ tasks[j].status = "in_progress"

\* a step that marks task i failed changes no other task and leaves the phase
\* and the error state alone
failureContained ==
    [][\A i \in 1..Len(tasks) :
         (Len(tasks') = Len(tasks) /\ tasks[i].status # "failed"
             /\ tasks'[i].status = "failed") =>
             /\ error' = NoError
             /\ phase' = phase
             /\ \A j \in 1..Len(tasks) : j # i => tasks'[j] = tasks[j]]_vars

allTasksSettled == \A i \in 1..Len(tasks) : settled(tasks[i])

\* C8 as stated: a step that marks a task failed changes no other task, leaves
\* the phase and the error state alone, and whenever the run is executing every
\* task of the list eventually is completed or failed.
C8_FailureContained ==
    /\ failureContained
    /\ [](phase = "executing" => <>allTasksSettled)

\* task i waits for nothing: the tasks of its file before it have ended
ready(i) ==
    /\ i <= Len(tasks)
    /\ tasks[i].status = "pending"
    /\ \A j \in 1..(i - 1) : tasks[j].file = tasks[i].file => settled(tasks[j])

\* C8, amended: a step that marks a task failed changes no other task and leaves
\* the phase and the error state alone; a pending task is started once the tasks
\* of its file before it have ended, failed or not, whatever happens in other
\* file groups; and if every fix stream in flight ends or raises (the agent
\* call has no timeout), every task of the cycle eventually is completed or
\* failed.
C8_FailureContainedWhileStreamsEnd ==
    /\ failureContained
    /\ [](error = NoError)
    /\ \A i \in 1..ExecFindings : ready(i) ~> ~ready(i)
    /\ streamsEnd => [](phase = "executing" => <>allTasksSettled)

\* C8 witness: a task failed, and a later task of the same file and a task of
\* another file were completed
C8_Witness ==
    \E i \in 1..Len(tasks) : \E j \in (i + 1)..Len(tasks) : \E k \in 1..Len(tasks) :
         /\ tasks[i].status = "failed"
         /\ tasks[j].status = "completed"
         /\ tasks[i].file = tasks[j].file
         /\ tasks[k].status = "completed"
         /\ tasks[k].file # tasks[i].file

\* every file group has finished and executeTasks is about to resume
groupsFinished == phase = "executing" /\ execPc = "awaiting" /\ allGroupsSettled

\* C9 as stated: the phase becomes verifying only in a step that finds every
\* task completed or failed and changes none, and once all file groups have
\* finished the phase becomes verifying.
C9_VerifyingAfterAllSettled ==
    /\ [][(phase # "verifying" /\ phase' = "verifying") =>
            /\ tasks' = tasks
            /\ allTasksSettled]_vars
    /\ groupsFinished ~> (phase = "verifying")

\* C9, amended: runVerification is called, and the phase becomes verifying,
\* only in a step that finds every task completed or failed and changes none;
\* once all file groups have finished runVerification is called, whatever the
\* number of failed tasks and also for an empty task list: the phase then is
\* verifying with the first command running if a command was discovered, and
\* reviewing (verifying having been set in the same step) if none was.
C9_VerificationAfterAllSettled ==
    /\ [][(runsDiscovery \/ (phase # "verifying" /\ phase' = "verifying")) =>
            /\ tasks' = tasks
            /\ allTasksSettled]_vars
    /\ [][groupsFinished =>
            /\ runsDiscovery
            /\ "verifying" \in visited'
            /\ phase' = IF discoverVerificationCommands(project) = <<>>
                        THEN "reviewing" ELSE "verifying"]_vars
    /\ groupsFinished ~> (execPc = "idle" /\ phase \in {"verifying", "reviewing"})

\* C9 witness: verifying was entered with a list of two tasks that both failed
C9_Witness ==
    /\ phase = "verifying"
    /\ verPc = "command"
    /\ verIdx = 0
    /\ cycle.passes = 1
    /\ Len(tasks) = 2
    /\ \A i \in 1..Len(tasks) : tasks[i].status = "failed"

\* the commands of the verification state, <<>> when there is none
commandsNow ==
    IF verificationState = NoVerificationState THEN <<>>
    ELSE verificationState[1].commands

\* C10: commands run one at a time in list order, and after a failed required
\* command no later command is run: at most one command is running, a command
\* has left pending only if every command before it is passed or skipped, and
\* only a required command is failed.
C10_RequiredFailureStopsPass ==
    /\ Cardinality({ i \in 1..Len(commandsNow) : commandsNow[i].status = "running" }) <= 1
    /\ \A i \in 1..Len(commandsNow) : \A j \in (i + 1)..Len(commandsNow) :
         commandsNow[j].status # "pending" =>
             commandsNow[i].status \in {"passed", "skipped"}
    /\ \A i \in 1..Len(commandsNow) :
         commandsNow[i].status = "failed" => ~commandsNow[i].optional

\* C10 witness: build failed; typecheck and test after it are still pending
C10_Witness ==
    /\ Len(commandsNow) = 3
    /\ commandsNow[1].status = "failed"
    /\ commandsNow[2].status = "pending"
    /\ commandsNow[3].status = "pending"
    /\ verificationState[1].status \in {"fixing", "failed"}

\* the status of the VerificationState, "none" while it is null
verificationStatus ==
    IF verificationState = NoVerificationState THEN "none"
    ELSE verificationState[1].status

\* command k (1-based) has just been marked skipped
becomesSkipped(k) ==
    /\ commandsNow[k].status # "skipped"
    /\ verificationState' # NoVerificationState
    /\ verificationState'[1].commands[k].status = "skipped"

\* C11: only an optional command is ever skipped; when a command is marked
\* skipped the pass goes on with the next command, or ends passed if it was the
\* last, and never enters fixing or failed; the status is passed only with every
\* command passed or skipped, and fixing or failed only with a failed required
\* command.
C11_OptionalFailureSkipped ==
    /\ [](/\ \A k \in 1..Len(commandsNow) :
               commandsNow[k].status = "skipped" => commandsNow[k].optional
          /\ verificationStatus = "passed" =>
               \A k \in 1..Len(commandsNow) :
                   commandsNow[k].status \in {"passed", "skipped"}
          /\ verificationStatus \in {"fixing", "failed"} =>
               \E k \in 1..Len(commandsNow) :
                   commandsNow[k].status = "failed" /\ ~commandsNow[k].optional)
    /\ [][\A k \in 1..Len(commandsNow) :
             becomesSkipped(k) =>
                 IF k < Len(commandsNow)
                 THEN /\ verificationState'[1].status = "running"
                      /\ verificationState'[1].commands[k + 1].status = "running"
                 ELSE verificationState'[1].status = "passed"]_vars

\* C11 witness: typecheck failed and was skipped, test ran after it, the pass
\* ended passed
C11_Witness ==
    /\ verificationStatus = "passed"
    /\ Len(commandsNow) = 3
    /\ commandsNow[2].status = "skipped"
    /\ commandsNow[3].status = "passed"

\* C12: in one automatic cycle the command list is run at most maxRetries
\* times and the fix prompt is submitted at most maxRetries - 1 times; a fix is
\* in flight only before the last attempt; when a required command fails in
\* attempt maxRetries the status becomes failed and no fix is submitted.
C12_RetryBound ==
    /\ [](/\ cycle.passes <= config.verification.maxRetries
          /\ cycle.fixes <= config.verification.maxRetries - 1
          /\ cycle.fixes <= cycle.passes
          /\ verPc = "fix" => cycle.passes < config.verification.maxRetries)
    /\ [][(/\ cycle.passes = config.verification.maxRetries
            /\ \E k \in 1..Len(commandsNow) :
                  /\ commandsNow[k].status = "running"
                  /\ verificationState'[1].commands[k].status = "failed")
           => /\ verificationState'[1].status = "failed"
              /\ cycle'.fixes = cycle.fixes
              /\ verPc' = "idle"]_vars

\* C12 witness: maxRetries = 3, three passes and two fixes, status failed
C12_Witness ==
    /\ config.verification.maxRetries = DefaultMaxRetries
    /\ cycle = [passes |-> DefaultMaxRetries, fixes |-> DefaultMaxRetries - 1]
    /\ verificationStatus = "failed"

\* the verification has failed and the user has not decided yet
awaitingDecision ==
    /\ phase = "verifying"
    /\ verificationStatus = "failed"
    /\ verPc = "idle"
    /\ error = NoError
    /\ ~exited

\* a key of the verification prompt is taken: retry, skip or quit
userDecision ==
    \/ handleVerificationRetry
    \/ handleVerificationSkip
    \/ verificationQuit

\* C13: while the status is failed in the verifying phase, every step is the
\* user's retry, skip or quit (no command is run, no fix is submitted and the
\* phase does not change by itself), and these three inputs are taken only
\* then, never with status running, fixing or passed.
C13_FailedAwaitsUser ==
    [][/\ awaitingDecision => userDecision
       /\ awaitingDecision =>
            \/ verificationState' = verificationState /\ phase' = "reviewing"
            \/ verificationState' = verificationState /\ phase' = phase /\ exited'
            \/ /\ phase' = phase
               /\ verificationState'[1].attempt = 1
               /\ verificationState'[1].status = "running"
       /\ userDecision => awaitingDecision]_vars

\* C13 witness: the fix agent raised before the retries were used up; the run
\* waits with status failed
C13_Witness ==
    /\ awaitingDecision
    /\ cycle.fixes = cycle.passes
    /\ cycle.passes < config.verification.maxRetries

\* C14: the review call starts only (a) at the end of a pass with status
\* passed and every command passed or skipped, (b) on the user's skip while the
\* status is failed, or (c) when discovery finds no command, and then no
\* VerificationState is set; while the review call is in flight no
\* verification command and no fix is.
C14_ReviewStart ==
    /\ [](reviewPc = "streaming" => verPc = "idle")
    /\ [][(reviewPc = "idle" /\ reviewPc' = "streaming") =>
            \/ /\ verPc = "command"
               /\ verificationState'[1].status = "passed"
               /\ \A k \in 1..Len(verificationState'[1].commands) :
                     verificationState'[1].commands[k].status \in {"passed", "skipped"}
            \/ /\ awaitingDecision
               /\ verificationState' = verificationState
            \/ /\ runsDiscovery
               /\ discoverVerificationCommands(project) = <<>>
               /\ verificationState' = verificationState]_vars

\* C14 witness: the review call is in flight after the user skipped a failed
\* verification
C14_Witness ==
    /\ phase = "reviewing"
    /\ reviewPc = "streaming"
    /\ verificationStatus = "failed"

\* C15 (as claimed): after the user's 's' in the loaded review view the phase
\* is complete, whatever the number of suggestions.
C15_SkipGoesToComplete == reviewKey = "s" => phase = "complete"

\* C16: the phase goes from reviewing to results only by the apply key, taken
\* after loading with at least one suggestion; the step replaces the findings
\* by one finding per suggestion (same title, description, file, line and
\* severity, category style-inconsistency, selected) and empties the task
\* list, the agent output and the suggestion list.
C16_ApplySuggestions ==
    [][(phase = "reviewing" /\ phase' = "results") =>
         /\ ~isReviewing
         /\ Len(reviewSuggestions) > 0
         /\ reviewKey' = "a"
         /\ Len(slopItems') = Len(reviewSuggestions)
         /\ \A k \in 1..Len(reviewSuggestions) :
              /\ slopItems'[k].title = reviewSuggestions[k].title
              /\ slopItems'[k].description = reviewSuggestions[k].description
              /\ slopItems'[k].file = reviewSuggestions[k].file
              /\ slopItems'[k].line = reviewSuggestions[k].line
              /\ slopItems'[k].severity = reviewSuggestions[k].severity
              /\ slopItems'[k].category = "style-inconsistency"
              /\ slopItems'[k].selected
         /\ tasks' = <<>>
         /\ agentOutput' = <<>>
         /\ reviewSuggestions' = <<>>]_vars

\* C16 witness: right after the apply key: the results view on the promoted
\* suggestion, no task, no output, no suggestion
C16_Witness ==
    /\ phase = "results"
    /\ reviewKey = "a"
    /\ Len(slopItems) = 1
    /\ slopItems[1].id = "review-slop-0"
    /\ slopItems[1].selected
    /\ tasks = <<>>
    /\ agentOutput = <<>>
    /\ reviewSuggestions = <<>>

\* C17: the error state is set only by the catch of runScan, with the scan
\* call in flight, or by the catch of runReview, with the review call in
\* flight; once set it is not changed.
C17_ErrorOnlyFromScanOrReview ==
    [][error' # error =>
         /\ error = NoError
         /\ \/ scanPc = "streaming" /\ error' = "scan"
            \/ reviewPc = "streaming" /\ error' = "review"]_vars

\* C17 witness: a task failed, the fix call raised and the verification
\* failed, findings.md was missing a category; the run is in review, no error
C17_Witness ==
    /\ error = NoError
    /\ phase = "reviewing"
    /\ \E i \in 1..Len(tasks) : tasks[i].status = "failed"
    /\ verificationStatus = "failed"
    /\ cycle.fixes = cycle.passes

\* a call of an agent or of a verification command is in flight
callInFlight ==
    \/ scanPc = "streaming"
    \/ \E g \in 1..Len(groupPc) : groupPc[g] = "streaming"
    \/ verPc \in {"command", "fix"}
    \/ reviewPc = "streaming"

\* a step that enters the error state
enterError == Next /\ error = NoError /\ error' # NoError

\* C18 (as claimed): the error state can be entered from every phase: in
\* whatever phase a call is in flight, a step into the error state is possible.
C18_ErrorReachableFromAnyPhase ==
    (~exited /\ error = NoError /\ callInFlight) => ENABLED enterError

\* C18 (amended): the error state is entered in the scanning phase or in the
\* reviewing phase only, never in results, executing or verifying.
C18_ErrorInScanningOrReviewing ==
    error # NoError => phase \in {"scanning", "reviewing"}

\* C18 witness: the review call raised after a loop-back
C18_Witness == error = "review" /\ phase = "reviewing" /\ loopedBack

\* C19: at most one command is running, and none is when the pass has ended
\* (status passed, fixing or failed).
C19_NoStaleRunning ==
    LET running == { k \in 1..Len(commandsNow) : commandsNow[k].status = "running" }
    IN  /\ Cardinality(running) <= 1
        /\ verificationStatus \in {"passed", "fixing", "failed"} => running = {}

\* C19 witness: the second attempt failed and its fix is in flight
C19_Witness ==
    /\ verificationStatus = "fixing"
    /\ cycle.fixes = 2
    /\ verPc = "fix"

\* what each manifest yields by itself, in the order of the probes
manifestYields ==
    << packageJsonCommands(project.packageJson),
       IF project.cargoToml THEN cargoCommands ELSE <<>>,
       IF project.pyproject.exists THEN pyprojectCommands(project.pyproject) ELSE <<>>,
       IF project.goMod THEN goCommands ELSE <<>>,
       IF project.makefile.exists THEN makefileCommands(project.makefile) ELSE <<>> >>

\* the commands the run was given by the discovery (their ids, in order)
discoveredIds == [ k \in 1..Len(commandsNow) |-> commandsNow[k].id ]

idsOf(commands) == [ k \in 1..Len(commands) |-> commands[k].id ]

\* C20: after the discovery the run's commands are those of the first manifest,
\* in the order package.json, Cargo.toml, pyproject.toml, go.mod, Makefile,
\* that yields a command, and of that manifest alone; there is none only if no
\* manifest yields one (the review then starts without a VerificationState).
C20_FirstManifestWins ==
    execPc = "idle" =>
        \/ /\ \A m \in 1..5 : manifestYields[m] = <<>>
           /\ verificationState = NoVerificationState
           /\ phase = "reviewing"
        \/ \E m \in 1..5 :
              /\ manifestYields[m] # <<>>
              /\ \A n \in 1..(m - 1) : manifestYields[n] = <<>>
              /\ discoveredIds = idsOf(manifestYields[m])

\* C20 witness: package.json is unreadable, pyproject.toml names pytest and a
\* Makefile has a test target: the run has pytest alone
C20_Witness ==
    /\ verPc = "command"
    /\ project.packageJson = Unreadable
    /\ ~project.cargoToml
    /\ project.makefile = Manifest({"test"})
    /\ discoveredIds = << "pytest" >>

\* the place of a command type in the order build, typecheck, test, lint
typeRank(type) ==
    CASE type = "build" -> 1
      [] type = "typecheck" -> 2
      [] type = "test" -> 3
      [] type = "lint" -> 4

\* C21 (as claimed): the discovered commands are in the type order build,
\* typecheck, test, lint, whatever the manifest they come from.
C21_TypeOrder ==
    execPc = "idle" =>
        \A i \in 1..Len(commandsNow) : \A j \in (i + 1)..Len(commandsNow) :
            typeRank(commandsNow[i].type) <= typeRank(commandsNow[j].type)

\* C22: a discovered build or test command is required, a discovered typecheck
\* or lint command is optional, and discovery returns every command pending
\* (the run then marks the first one running and leaves the others pending).
C22_RequiredByType ==
    /\ \A k \in 1..Len(discoverVerificationCommands(project)) :
          discoverVerificationCommands(project)[k].status = "pending"
    /\ execPc = "idle" =>
          \A k \in 1..Len(commandsNow) :
              /\ commandsNow[k].type \in {"build", "test"} => ~commandsNow[k].optional
              /\ commandsNow[k].type \in {"typecheck", "lint"} => commandsNow[k].optional
              /\ k > 1 => commandsNow[k].status = "pending"

\* C22 witness: package.json with build and lint scripts: build required and
\* running, lint optional and pending
C22_Witness ==
    /\ verPc = "command"
    /\ discoveredIds = << "build", "lint" >>
    /\ ~commandsNow[1].optional
    /\ commandsNow[2].optional
    /\ commandsNow[2].status = "pending"

\* C23: running a command always yields a result: success is true exactly when
\* the process closed with exit code 0, and a process killed by the timeout or
\* a signal, or one that could not be spawned, yields success = false with a
\* non-zero exit code; the command it ran is then no longer running.
C23_RunnerResult ==
    result # <<>> =>
        LET r == result[1] IN
        /\ r.success <=> (r.outcome.event = "close" /\ r.outcome.code = << 0 >>)
        /\ r.success <=> r.exitCode = 0
        /\ r.outcome.code = <<>> => ~r.success /\ r.exitCode # 0
        /\ \A k \in 1..Len(commandsNow) :
              commandsNow[k].status = "running" => verPc = "command" /\ k = verIdx + 1

\* C23 witness: the only command was killed by a signal: it is failed, not running
C23_Witness ==
    /\ result # <<>>
    /\ result[1].outcome.event = "close"
    /\ result[1].outcome.code = <<>>
    /\ ~result[1].success
    /\ result[1].exitCode = 1
    /\ Len(commandsNow) = 1
    /\ commandsNow[1].status = "failed"

\* runScan reads findings.md in this step
readsFindings == scanPc = "streaming" /\ scanPc' = "done"

\* the record that issue block w, written in the prompt's format, stands for
writtenItem(w, index) ==
    [ id          |-> "slop-" \o ToString(index),
      title       |-> w[1].title,
      description |-> join(w[5].value),
      file        |-> join(w[2].value),
      line        |-> CHOOSE n \in LineNumbers : ToString(n) = join(w[3].value),
      severity    |-> toLowerCase(w[1].severity),
      category    |-> join(w[4].value),
      selected    |-> FALSE ]

\* C24 (as claimed): reading a findings document written in the prompt's
\* format with N well-formed issue blocks (N = 0: "No Issues Found") gives
\* exactly N records, in document order, each with the title, file, line,
\* category, severity and description written, ids slop-0.., none selected.
C24_RoundTrip ==
    [][readsFindings =>
         \A blocks \in SeqUpTo(WellFormedBlocks, MaxFindings) :
             LET doc == [exists |-> TRUE, content |-> writeFindings(blocks)] IN
             findingsFile \in {doc, withFinalNewline(doc)} =>
                 slopItems' = [ k \in 1..Len(blocks) |-> writtenItem(blocks[k], k - 1) ]]_vars

\* the lines of the k-th issue block of a document: from its heading to the next
blockOf(content, k) ==
    LET heads == issueLines(content) IN
    SubSeq(content, heads[k],
           IF k < Len(heads) THEN heads[k + 1] - 1 ELSE Len(content))

hasBullet(block, field) ==
    \E i \in 1..Len(block) : block[i].kind = "bullet" /\ block[i].field = field

\* C25: reading findings.md gives one record per issue heading whatever
\* bullets are missing: a block without Line has line undefined, one without
\* File has file 'unknown', one without Description has description '', and
\* each record is the one its block alone would give.
C25_MissingFields ==
    [][readsFindings /\ findingsFile.exists /\ issueLines(findingsFile.content) # <<>> =>
         LET content == findingsFile.content
             items   == slopItems'
         IN  /\ Len(items) = Len(issueLines(content))
             /\ \A k \in 1..Len(items) :
                   LET block == blockOf(content, k) IN
                   /\ ~hasBullet(block, "Line") => items[k].line = 0
                   /\ ~hasBullet(block, "File") => items[k].file = "unknown"
                   /\ ~hasBullet(block, "Description") => items[k].description = ""
                   /\ items[k] = [parseFindingsMarkdown(block \o << blankLine >>)[1]
                                      EXCEPT !.id = items[k].id]]_vars

\* C25 witness: a heading without bullets, then a complete block
C25_Witness ==
    /\ scanPc = "done"
    /\ Len(slopItems) = 2
    /\ slopItems[1].file = "unknown"
    /\ slopItems[1].line = 0
    /\ slopItems[1].description = ""
    /\ slopItems[2].file = "a.ts"
    /\ slopItems[2].line = 42
    /\ slopItems[2].description = "restates code"

\* C26 (as claimed): the severity and the category of a parsed finding are
\* the lower-cased forms of what the agent wrote.
C26_LowerCased ==
    \A k \in 1..Len(slopItems) :
        /\ slopItems[k].severity = toLowerCase(slopItems[k].severity)
        /\ slopItems[k].category = toLowerCase(slopItems[k].category)

taskIds(ts) == { ts[i].id : i \in 1..Len(ts) }

\* C27 (as claimed): a task, once created, is never removed from the task list.
C27_TasksNeverRemoved ==
    [][taskIds(tasks) \subseteq taskIds(tasks')]_vars

\* C27 (amended): the task list changes in three ways only: it is created
\* from an empty list on proceed, it is emptied when the user applies the
\* review suggestions, and in between only the statuses of its tasks change,
\* and only while the task executor runs.
C27_TasksRemovedOnlyOnLoopBack ==
    [][tasks' # tasks =>
         \/ /\ tasks = <<>>
            /\ phase = "results" /\ phase' = "executing"
         \/ /\ tasks' = <<>>
            /\ phase = "reviewing" /\ phase' = "results"
            /\ reviewKey' = "a"
         \/ /\ phase = "executing" /\ phase' = "executing"
            /\ execPc = "awaiting"
            /\ Len(tasks') = Len(tasks)
            /\ \A i \in 1..Len(tasks) : tasks'[i] = [tasks[i] EXCEPT !.status = tasks'[i].status]]_vars

\* C27 witness: the suggestions were applied and the tasks of the first round
\* are gone: the task list is empty in the results view of the second round
C27_Witness ==
    /\ loopedBack
    /\ phase = "results"
    /\ tasks = <<>>
    /\ scanResult.found > 0
    /\ reviewKey = "a"

\* the groups whose text is in the buffer
bufferedGroups ==
    { g \in 1..Len(fileGroups) :
        \E i \in 1..Len(outputBufferRef) : outputBufferRef[i] = deltaText(g) }

\* C28 (as claimed): while tasks execute, the progress-text buffer is never
\* written by two file groups whose tasks are in flight at the same time: it
\* never holds the text of two groups, and the start of a task of one group
\* never empties a buffer that holds the text of another group's task in flight.
C28_NoSharedBuffer ==
    /\ [](phase = "executing" => Cardinality(bufferedGroups) <= 1)
    /\ [][\A g \in 1..Len(fileGroups) : \A h \in bufferedGroups :
             (/\ g # h
              /\ groupPc[h] = "streaming"
              /\ groupPc[g] = "between"
              /\ groupPc'[g] = "streaming")
             => outputBufferRef' # <<>>]_vars

\* the value of an option in a configuration
optionOf(cfg, o) ==
    CASE o = "planning" -> cfg.models.planning
      [] o = "executing" -> cfg.models.executing
      [] o = "verification" -> cfg.models.verification
      [] o = "maxRetries" -> cfg.verification.maxRetries
      [] o = "timeout" -> cfg.verification.timeout

\* the file sets the option: it exists, it parses and it has a value for it
setsOption(file, o) == file.exists /\ file.valid /\ file.options[o] # <<>>

\* C29 (as claimed): every option of the loaded configuration is the one of
\* the project file if that file sets it, otherwise the one of the global
\* file if that file sets it, otherwise the default; a file that does not
\* parse counts as absent.
C29_PrecedencePerOption ==
    scanPc # "cli" =>
        \A o \in Options :
            optionOf(config, o) =
                IF setsOption(configFiles.project, o) THEN configFiles.project.options[o][1]
                ELSE IF setsOption(configFiles.global, o) THEN configFiles.global.options[o][1]
                ELSE optionOf(DEFAULT_CONFIG, o)

\* C30: the user's retry in status failed restarts verification: attempt 1,
\* status running, the first command running and every other command
\* pending, and the counters of the automatic cycle start again, so that the
\* restarted cycle has the fix submissions of a first cycle (C12 bounds them
\* per cycle by maxRetries - 1).
C30_RetryRestartsCycle ==
    [][awaitingDecision /\ verPc' = "command" =>
         /\ verAttempt' = 1
         /\ verIdx' = 0
         /\ verificationState'[1].attempt = 1
         /\ verificationState'[1].status = "running"
         /\ verificationState'[1].commands =
              [ k \in 1..Len(commandsNow) |->
                  [commandsNow[k] EXCEPT !.status = IF k = 1 THEN "running" ELSE "pending"] ]
         /\ cycle' = [passes |-> 1, fixes |-> 0]]_vars

\* C30 witness: with maxRetries = 2 the first cycle has ended failed after its
\* one fix, the user has retried (the output of the failed command is followed
\* at once by the line of the first command), and the restarted cycle has
\* submitted a fix again
C30_Witness ==
    /\ config.verification.maxRetries = 2
    /\ verPc = "fix"
    /\ verAttempt = 1
    /\ cycle = [passes |-> 1, fixes |-> 1]
    /\ \E i \in 1..(Len(agentOutput) - 2) :
          /\ agentOutput[i] = "error"
          /\ agentOutput[i + 1] = ""
          /\ agentOutput[i + 2] = "Running: " \o commandsNow[1].command

\* the list of commands without the statuses: ids, order, commands and flags
listOf(commands) ==
    [ k \in 1..Len(commands) |-> [commands[k] EXCEPT !.status = "pending"] ]

\* C31: when the fix call has completed, the next pass starts from a reset
\* list: the attempt is one more than before, the status is running, and
\* every command is pending but the first, which the next pass marks running
\* in the same synchronous block (so every command was pending when it did);
\* the list of commands (ids, order, optional flags) is the same in every
\* attempt.
C31_FixResetsCommands ==
    /\ [][verPc = "fix" /\ verPc' = "command" =>
            /\ verificationState'[1].attempt = verificationState[1].attempt + 1
            /\ verAttempt' = verAttempt + 1
            /\ verificationState'[1].status = "running"
            /\ verificationState'[1].currentCommandIndex = 0
            /\ verificationState'[1].commands =
                 [ k \in 1..Len(commandsNow) |->
                     [commandsNow[k] EXCEPT
                         !.status = IF k = 1 THEN "running" ELSE "pending"] ]]_vars
    /\ [][verificationState # NoVerificationState =>
            /\ verificationState' # NoVerificationState
            /\ listOf(verificationState'[1].commands) = listOf(commandsNow)]_vars

\* C31 witness: the second command failed in attempt 1, the fix has completed
\* and attempt 2 is running its first command, the failed one pending again
C31_Witness ==
    /\ verPc = "command"
    /\ verIdx = 0
    /\ verificationStatus = "running"
    /\ verificationState[1].attempt = 2
    /\ Len(commandsNow) >= 2
    /\ commandsNow[1].status = "running"
    /\ \A k \in 2..Len(commandsNow) : commandsNow[k].status = "pending"
    /\ \E i \in 1..Len(agentOutput) :
          agentOutput[i] = "Attempting to fix verification failure (attempt 1/"
                           \o ToString(config.verification.maxRetries) \o ")..."

\* the fix prompts of the tasks of group g that have been started
startedFixPrompts(g) ==
    { Prompt("fix", fileGroups[g].tasks[k].slopItemId) : k \in 1..groupIdx[g] }

\* C32: execution constructs exactly one new agent per file group, with the
\* executing model, and a group's agent has received the fix prompts of the
\* group's started tasks and nothing else, so that no agent has fix prompts of
\* two groups; the planning and the verification agent never receive a fix
\* prompt.
C32_AgentPerGroup ==
    /\ Len(agents) = verificationAgent + Len(fileGroups)
    /\ Len(groupAgent) = Len(fileGroups)
    /\ \A g \in 1..Len(fileGroups) :
         /\ groupAgent[g] \in (verificationAgent + 1)..Len(agents)
         /\ agents[groupAgent[g]].model = config.models.executing
         /\ agents[groupAgent[g]].prompts = startedFixPrompts(g)
         /\ \A h \in 1..Len(fileGroups) : groupAgent[g] = groupAgent[h] => g = h
    /\ \A g \in 1..Len(fileGroups) : \A h \in 1..Len(fileGroups) :
         g # h => startedFixPrompts(g) \cap startedFixPrompts(h) = {}
    /\ agents[planningAgent].prompts \subseteq {Prompt("scan", ""), Prompt("review", "")}
    /\ agents[verificationAgent].prompts \subseteq {Prompt("verification-fix", "")}

\* C32 witness: two file groups execute at the same time, each on an agent of
\* its own that holds the fix prompt of its own task only
C32_Witness ==
    /\ phase = "executing"
    /\ Len(fileGroups) = 2
    /\ groupAgent[1] # groupAgent[2]
    /\ groupPc[1] = "streaming" /\ groupPc[2] = "streaming"
    /\ agents[groupAgent[1]].prompts = { Prompt("fix", fileGroups[1].tasks[1].slopItemId) }
    /\ agents[groupAgent[2]].prompts = { Prompt("fix", fileGroups[2].tasks[1].slopItemId) }

-----------------------------------------------------------------------------
\* the numbers of the "## Entry n" headings of not-slop.md, in file order
entryNumbers(file) ==
    [ k \in 1..Len(entryLines(file.content)) |-> file.content[entryLines(file.content)[k]].n ]

\* C33: after any sequence of addNotSlopEntry calls, loadNotSlopEntries returns
\* exactly the entries that were stored, in insertion order, with the file, line,
\* category, title and snippet of each, and the k-th block of the file is
\* numbered "Entry k".
C33_StoreRoundTrip ==
    notSlopFile.exists =>
        /\ loadNotSlopEntries(notSlopFile) = stored
        /\ entryNumbers(notSlopFile) = [ k \in 1..Len(stored) |-> k ]

\* the append-only part of C33, which holds: a write leaves what the file held
\* as a prefix of what it holds afterwards
C33_PrefixKept ==
    [][notSlopFile' # notSlopFile =>
        /\ notSlopFile'.exists
        /\ notSlopFile.exists =>
             /\ Len(notSlopFile'.content) > Len(notSlopFile.content)
             /\ SubSeq(notSlopFile'.content, 1, Len(notSlopFile.content))
                    = notSlopFile.content]_vars

-----------------------------------------------------------------------------
\* what C34 expects of a review.md in the prompt's format: a suggestion for each
\* "### n. [SEVERITY] title" block, with the bullets as they are written
expectedSuggestions(content) ==
    LET heads == issueLines(content) IN
    [ k \in 1..Len(heads) |->
        [ id          |-> "review-" \o ToString(k - 1),
          title       |-> content[heads[k]].title,
          file        |-> join(content[heads[k] + 1].value),
          line        |-> parseInt(join(content[heads[k] + 2].value)),
          severity    |-> toLowerCase(content[heads[k]].severity),
          description |-> join(content[heads[k] + 3].value) ] ]

\* the document says that there are no suggestions: the heading of the prompt or
\* one of the markers
carriesSentinel(content) ==
    \/ includes(content, "No Suggestions")
    \/ \E marker \in NoSuggestionsMarkers : includes(content, marker)

\* C34: readReview returns one suggestion per well-formed block of review.md, in
\* document order, whatever the titles and descriptions say; it returns the
\* empty list exactly when the document carries the no-suggestions sentinel and
\* no suggestion heading; and the read leaves the phase at reviewing without an
\* error, also for zero suggestions.
C34_OnePerBlock ==
    [][(reviewPc = "streaming" /\ reviewPc' = "idle" /\ reviewFile.exists) =>
        /\ reviewSuggestions' = expectedSuggestions(reviewFile.content)
        /\ (reviewSuggestions' = <<>>) <=>
               (carriesSentinel(reviewFile.content) /\ issueLines(reviewFile.content) = <<>>)
        /\ phase' = "reviewing"
        /\ error' = NoError]_vars

\* the part of C34 that holds: after a read that found no suggestion the view
\* stays in reviewing, without an error, until the user presses ENTER or 's'
C34_ZeroStaysReviewing ==
    /\ (reviewPc = "idle" /\ phase = "reviewing" /\ reviewKey = "none") => error = NoError
    /\ (phase = "complete") => reviewKey \in {"s", "return"}

-----------------------------------------------------------------------------
\* the steps of a task's status
StatusEdges ==
    { <<"pending", "in_progress">>, <<"in_progress", "completed">>,
      <<"in_progress", "failed">> }

\* C35: the status of a task only moves forward along pending -> in_progress ->
\* (completed | failed): no step leaves completed or failed or returns to an
\* earlier status, whichever file group takes it; new tasks are pending or
\* already started; and when the executor has finished every task is completed
\* or failed.
C35_StatusForward ==
    /\ [][\/ tasks' = tasks
          \/ tasks' = <<>>
          \/ /\ tasks = <<>>
             /\ \A i \in 1..Len(tasks') : tasks'[i].status \in {"pending", "in_progress"}
          \/ /\ Len(tasks') = Len(tasks)
             /\ \A i \in 1..Len(tasks) :
                  /\ [tasks'[i] EXCEPT !.status = tasks[i].status] = tasks[i]
                  /\ \/ tasks'[i].status = tasks[i].status
                     \/ <<tasks[i].status, tasks'[i].status>> \in StatusEdges]_vars
    /\ [](phase \in {"verifying", "reviewing", "complete"} =>
            \A i \in 1..Len(tasks) : settled(tasks[i]))

\* C35 witness: a task is completed or failed while a task of another file group is
\* in progress
C35_Witness ==
    /\ phase = "executing"
    /\ \E i, j \in 1..Len(tasks) :
         /\ settled(tasks[i])
         /\ tasks[j].status = "in_progress"
         /\ tasks[i].file # tasks[j].file

-----------------------------------------------------------------------------
\* C36: whenever the verification status is failed, exactly one command is
\* failed, it is a required one, every command before it is passed or skipped
\* and every command after it is pending; whenever the status is passed, every
\* command is passed or skipped.
C36_StatusMatchesCommands ==
    verificationState # NoVerificationState =>
        LET vs == verificationState[1]
            n  == Len(vs.commands)
            failedAt == { i \in 1..n : vs.commands[i].status = "failed" }
        IN  /\ vs.status = "failed" =>
                /\ Cardinality(failedAt) = 1
                /\ \A i \in failedAt :
                     /\ ~vs.commands[i].optional
                     /\ \A j \in 1..(i - 1) : vs.commands[j].status \in {"passed", "skipped"}
                     /\ \A j \in (i + 1)..n : vs.commands[j].status = "pending"
            /\ vs.status = "passed" =>
                \A i \in 1..n : vs.commands[i].status \in {"passed", "skipped"}

\* C36 witness: the verification has failed at a required command that follows a
\* skipped optional one, with the fix attempts used up
C36_Witness ==
    /\ verificationState # NoVerificationState
    /\ verificationState[1].status = "failed"
    /\ verPc = "idle"
    /\ \E i \in 2..Len(commandsNow) :
         /\ commandsNow[i].status = "failed"
         /\ commandsNow[i - 1].status = "skipped"

-----------------------------------------------------------------------------
\* VerificationState.attempt, 0 when there is no verification state
attemptNow == IF verificationState = NoVerificationState THEN 0 ELSE verificationState[1].attempt

\* the attempt is within its bounds and grows only by one, after a fix call that
\* has completed
attemptBounded ==
    /\ [](verificationState # NoVerificationState =>
            /\ config.verification.maxRetries >= 1
            /\ verificationState[1].maxAttempts = config.verification.maxRetries
            /\ 1 <= attemptNow /\ attemptNow <= verificationState[1].maxAttempts)
    /\ [][attemptNow' # attemptNow => attemptNow' = attemptNow + 1 \/ attemptNow' = 1]_vars
    /\ [][attemptNow' = attemptNow + 1 /\ attemptNow > 0 =>
            /\ verPc = "fix"
            /\ verificationState[1].status = "fixing"
            /\ verificationState'[1].status = "running"]_vars

\* C37 as stated: for every maxRetries >= 1 the attempt satisfies
\* 1 <= attempt <= maxAttempts, it increases only by exactly 1 after a completed
\* fix call, and it returns to 1 only through the user's retry.
C37_AttemptReturnsOnlyOnRetry ==
    /\ attemptBounded
    /\ [][attemptNow > 1 /\ attemptNow' = 1 => showPrompt /\ verPc' = "command"]_vars

\* C37, amended: as above, but the attempt returns to 1 through the user's retry
\* or through the verification of a later round, which starts from a new state.
C37_AttemptReturnsOnRetryOrNewRound ==
    /\ attemptBounded
    /\ [][attemptNow > 1 /\ attemptNow' = 1 =>
            \/ showPrompt /\ verPc' = "command"
            \/ loopedBack /\ runsDiscovery]_vars

\* C37 witness: the verification of a round after a loop-back has started at
\* attempt 1, and the round before had ended at a later attempt
C37_Witness ==
    /\ loopedBack
    /\ phase = "verifying"
    /\ verPc = "command"
    /\ attemptNow = 1
    /\ cycle = [passes |-> 1, fixes |-> 0]
    /\ Prompt("verification-fix", "") \in agents[verificationAgent].prompts

-----------------------------------------------------------------------------
\* every selected finding is of a hint-only category
onlyHintsSelected(items) ==
    \A i \in 1..Len(items) : items[i].selected => items[i].category \in HINT_ONLY_CATEGORIES

\* C38: in the results view ENTER proceeds exactly when at least one finding is
\* selected, hint-only findings counted; the phase leaves results in no other
\* way, so that a list emptied by mark-not-slop is never left; and a proceed with
\* only hint-only findings selected enters executing with an empty task list.
C38_ProceedNeedsSelection ==
    /\ [](Rendering("results") =>
            ((ENABLED handleProceed) <=> selectedCount(slopItems) > 0))
    /\ [][phase = "results" /\ phase' # "results" =>
            /\ selectedCount(slopItems) > 0
            /\ phase' = "executing"
            /\ onlyHintsSelected(slopItems) => tasks' = <<>>
            /\ tasks' = <<>> => onlyHintsSelected(slopItems)]_vars
    /\ [][phase = "results" /\ slopItems = <<>> => phase' = "results"]_vars

\* C38 witness: the user has marked every finding as not slop, and the results
\* view shows the empty list
C38_Witness ==
    /\ Rendering("results")
    /\ slopItems = <<>>
    /\ stored # <<>>

\* a proceed with only a hint-only finding selected: executing with no task
C38_HintOnlyProceed ==
    /\ phase = "executing"
    /\ tasks = <<>>
    /\ selectedCount(slopItems) > 0

-----------------------------------------------------------------------------
\* an activation of executeVerification is between its first and its last step
inFlight == verPc \in {"command", "fix"}

\* a step that starts a pass: executeVerification is entered
passStarts ==
    /\ verPc' = "command"
    /\ verIdx' = 0
    /\ <<verPc, verIdx, verAttempt>> # <<verPc', verIdx', verAttempt'>>

\* the lines of the agent output that announce the first command
firstCommandLines ==
    { i \in 1..Len(agentOutput) : agentOutput[i] = "Running: " \o commandsNow[1].command }

\* C39: at most one verification pass is in flight: the prompt that takes the
\* user's retry is shown only while no activation of executeVerification is in
\* flight and no command is running, and a pass starts only from the discovery,
\* from the end of a fix call or from the prompt, never while a pass is running
\* commands, however often the user retries.
C39_OnePassInFlight ==
    /\ [](showPrompt =>
            /\ ~inFlight
            /\ \A i \in 1..Len(commandsNow) : commandsNow[i].status # "running")
    /\ [][passStarts =>
            /\ verPc \in {"fix", "idle"}
            /\ verPc = "idle" => (showPrompt \/ runsDiscovery)
            /\ \A i \in 1..Len(commandsNow') :
                 commandsNow'[i].status = IF i = 1 THEN "running" ELSE "pending"]_vars

\* C39 witness: the user has retried twice, and the third pass runs its first
\* command
C39_Witness ==
    /\ phase = "verifying"
    /\ verPc = "command"
    /\ verIdx = 0
    /\ config.verification.maxRetries = 1
    /\ Cardinality(firstCommandLines) >= 3

-----------------------------------------------------------------------------
\* the steps of createPR in their order; the new branch is created only where
\* the current branch is main or master
stepsOf(branch) ==
    << "branch" >> \o (IF branch \in {"main", "master"} THEN << "checkout" >> ELSE <<>>)
        \o << "add", "commit", "push", "pr" >>

\* the steps createPR has run so far
stepsRun == [ i \in 1..Len(commandsRun) |-> commandsRun[i].step ]

\* the steps whose result createPR tests
CheckedSteps == {"checkout", "add", "commit", "push", "pr"}

\* C40: pull-request creation starts only from status prompt; its steps run in
\* the order read branch, new branch if the current branch is main or master,
\* stage, commit, push, create PR; after a checked step that failed no step runs
\* and the status is error; no commit is made while the current branch is main
\* or master; and status done is reached only after every step has succeeded.
C40_PullRequestSteps ==
    /\ [][prStatus' = "creating" /\ prStatus # "creating" => prStatus = "prompt"]_vars
    /\ [](commandsRun # <<>> =>
            LET n      == Len(commandsRun)
                onto   == commandsRun[1].branch
                wanted == stepsOf(onto)
            IN  /\ n <= Len(wanted)
                /\ stepsRun = SubSeq(wanted, 1, n)
                /\ \A i \in 1..n :
                     /\ (commandsRun[i].step \in CheckedSteps /\ ~commandsRun[i].success) =>
                            i = n /\ prStatus = "error"
                     /\ commandsRun[i].step = "commit" =>
                            commandsRun[i].branch \notin {"main", "master"}
                /\ prStatus = "done" =>
                     n = Len(wanted) /\ \A i \in 1..n : commandsRun[i].success)

\* the part of C40 that holds whatever `git branch --show-current` returns: the
\* creation starts from the prompt, the checked steps run in their order, a
\* failed one is the last step and sets status error, and done follows a pull
\* request that was created
C40_CheckedStepsInOrder ==
    /\ [][prStatus' = "creating" /\ prStatus # "creating" => prStatus = "prompt"]_vars
    /\ [](commandsRun # <<>> =>
            LET n      == Len(commandsRun)
                wanted == stepsOf(currentBranch)
            IN  /\ n <= Len(wanted)
                /\ stepsRun = SubSeq(wanted, 1, n)
                /\ \A i \in 1..n :
                     (commandsRun[i].step \in CheckedSteps /\ ~commandsRun[i].success) =>
                        i = n /\ prStatus = "error"
                /\ prStatus = "done" =>
                     /\ n = Len(wanted)
                     /\ \A i \in 2..n : commandsRun[i].success)

====
